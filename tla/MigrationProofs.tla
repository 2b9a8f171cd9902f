-------------------------- MODULE MigrationProofs --------------------------
(***************************************************************************)
(* Safety of Migration for every set of views and aliases and every bound. *)
(* MigrationInv is the inductive invariant: before the commit nothing      *)
(* public has changed and an abort is admitted, after it ledger, journal   *)
(* and tree are bound to each other until the journal is gone.             *)
(***************************************************************************)
EXTENDS Migration, TLAPS

RunStep ==
  {"idle", "open", "repaired", "plan", "render", "anchored", "loop", "completed", "unstage",
   "stage", "state", "journal"}

RunRecord ==
  [cmd : {"none", "migrate", "abandon"}, at : RunStep, now : Nat, grace : Nat,
   plan : {None} \cup Plan]

LedgerRecord ==
  [layout : {"c2_to_single", "single"}, gen : {Base, Next1, Later}, recorded : BOOLEAN,
   receipt : BOOLEAN, control : {None} \cup ControlRecord]

\* The running command is a whole record, and its clock is not ahead.
Typed ==
  /\ TypeOK
  /\ run \in RunRecord /\ run.now <= now
  /\ run.cmd = "none" <=> run = Idle

\* Nothing that readers or an abort look at has changed.
Untouched ==
  /\ ledger.layout = "c2_to_single" /\ ledger.gen = Base /\ ~ledger.receipt
  /\ \A v \in View : live[v] = Old
  /\ aliases = Alias
  /\ now \in 1 .. MaxTime
  /\ run.cmd = "migrate" => run.now \in Plan
  /\ journal # None => Abandonable

\* Once committed, the journal is bound until the last of it is cleared.
Decided ==
  /\ journal # None => Bound \/ ledger.gen = Later
  /\ journal = None => ledger.layout = "single"
  /\ run.cmd # "abandon"
  /\ run.cmd = "migrate" => run.at \in {"open", "repaired", "loop", "completed", "unstage"}

\* The single layout is that of a finished migration.
Finished ==
  /\ Committed /\ ledger.receipt /\ ledger.gen # Base
  /\ \A v \in View : live[v] # Old
  /\ aliases = {}

\* No alias is deleted before the committed deadline.
DeadlineKept ==
  Committed /\ journal # None /\ Rank(journal.phase) >= Rank("alias_delete") =>
    Alias = {} \/ now >= ledger.control.notBefore

\* What the running command may count on.
RunSound ==
  /\ At("migrate", "repaired") => ledger.layout = "single"
  /\ At("migrate", "completed") => ledger.layout = "single" /\ In("final_manifest") /\ Bound
  /\ At("migrate", "unstage") => ledger.layout = "single" /\ journal = None
  /\ run.cmd = "migrate" /\ run.at \in {"plan", "render", "anchored"} =>
       /\ ~Committed /\ journal = None
       /\ run.plan \in Plan
  /\ At("migrate", "render") => stage \in [View -> {None, run.plan}]
  /\ At("migrate", "anchored") => ledger.control = Control(run.plan)
  /\ At("migrate", "loop") => journal # None
  /\ At("abandon", "journal") => ledger.control = None

MigrationInv ==
  /\ Typed
  /\ ~Committed => Untouched
  /\ Committed => Decided
  /\ ledger.layout = "single" => Finished
  /\ DeadlineKept
  /\ RunSound

-----------------------------------------------------------------------------
(* Phases and records *)

\* The rank of each phase.
LEMMA Ranks ==
  /\ Rank("planned") = 1 /\ Rank("staged") = 2 /\ Rank("commit_intent") = 3
  /\ Rank("pointer_rollforward") = 4 /\ Rank("grace") = 5 /\ Rank("alias_delete") = 6
  /\ Rank("final_manifest") = 7 /\ Rank("done") = 8
<1>1. /\ Phase[1] = "planned" /\ Phase[2] = "staged" /\ Phase[3] = "commit_intent"
      /\ Phase[4] = "pointer_rollforward" /\ Phase[5] = "grace" /\ Phase[6] = "alias_delete"
      /\ Phase[7] = "final_manifest" /\ Phase[8] = "done"
  BY DEF Phase
<1>2. 1 .. 8 = {1, 2, 3, 4, 5, 6, 7, 8}
  OBVIOUS
<1>3. ASSUME NEW n \in 1 .. 8 PROVE Rank(Phase[n]) = n
  <2>1. \A k \in 1 .. 8 : Phase[k] = Phase[n] => k = n
    BY <1>1, <1>2
  <2> QED
    BY <2>1 DEF Rank
<1>4. /\ Rank(Phase[1]) = 1 /\ Rank(Phase[2]) = 2 /\ Rank(Phase[3]) = 3 /\ Rank(Phase[4]) = 4
      /\ Rank(Phase[5]) = 5 /\ Rank(Phase[6]) = 6 /\ Rank(Phase[7]) = 7 /\ Rank(Phase[8]) = 8
  BY <1>3
<1> QED
  BY <1>1, <1>4

\* The phases by name.
LEMMA PhaseNames ==
  {Phase[k] : k \in 1 .. 8} =
    {"planned", "staged", "commit_intent", "pointer_rollforward", "grace", "alias_delete",
     "final_manifest", "done"}
<1>1. /\ Phase[1] = "planned" /\ Phase[2] = "staged" /\ Phase[3] = "commit_intent"
      /\ Phase[4] = "pointer_rollforward" /\ Phase[5] = "grace" /\ Phase[6] = "alias_delete"
      /\ Phase[7] = "final_manifest" /\ Phase[8] = "done"
  BY DEF Phase
<1>2. 1 .. 8 = {1, 2, 3, 4, 5, 6, 7, 8}
  OBVIOUS
<1> QED
  BY <1>1, <1>2

\* No command runs.
LEMMA IdleFields ==
  /\ Idle.cmd = "none" /\ Idle.at = "idle" /\ Idle.now = 0 /\ Idle.plan = None
  /\ Idle \in RunRecord
  BY DEF Idle, RunRecord, RunStep

\* Neither the old metadata nor nothing is the render of a plan.
LEMMA PlanNotOld == \A p \in Plan : p # Old /\ p # None /\ p \in Nat
  BY MigrationAssumption, NoneAssumption DEF Plan, Old

\* A journal that is there is a whole record.
LEMMA Journaled ==
  ASSUME MigrationInv, journal # None
  PROVE  journal \in JournalRecord
  BY DEF MigrationInv, Typed, TypeOK

\* A committed control is a whole record with its deadline.
LEMMA Controlled ==
  ASSUME MigrationInv
  PROVE  /\ ledger.control # None => ledger.control \in ControlRecord /\ ledger.control.plan \in Plan
         /\ Committed => ledger.control \in ControlRecord /\ ledger.control.notBefore \in Nat
<1>1. ledger.control \in {None} \cup ControlRecord
  BY DEF MigrationInv, Typed, TypeOK
<1> QED
  BY <1>1 DEF Committed, ControlRecord

\* What a turn of the loop knows.
LEMMA Turning ==
  ASSUME MigrationInv, NEW p, Turn(p)
  PROVE  /\ journal # None /\ journal \in JournalRecord /\ journal.phase = p
         /\ Bound /\ At("migrate", "loop")
  BY Journaled DEF Turn, In

-----------------------------------------------------------------------------
(* Frames *)

\* Recovery's check does not depend on the signers once the plan is committed.
LEMMA BoundKept ==
  ASSUME UNCHANGED <<ledger, journal, live, stage, aliases>>, Bound, Committed
  PROVE  Bound'
<1>1. Committed'
  BY DEF Committed
<1> QED
  BY <1>1 DEF Bound, LedgerBound, ControlBound, PointersBound, AliasesBound, TreesBound

\* Only the command, the clock, the configuration, the counters and the stage of
\* a plan that is not committed change.
LEMMA RunMoves ==
  ASSUME MigrationInv, UNCHANGED <<ledger, journal, live, aliases>>,
         Typed', now <= now', RunSound',
         ~Committed => now' \in 1 .. MaxTime /\ (run'.cmd = "migrate" => run'.now \in Plan),
         Committed => /\ stage' = stage /\ run'.cmd # "abandon"
                      /\ run'.cmd = "migrate" =>
                           run'.at \in {"open", "repaired", "loop", "completed", "unstage"}
  PROVE  MigrationInv'
<1>1. Committed' = Committed /\ Abandonable' = Abandonable
  BY DEF Committed, Abandonable
<1>2. ~Committed' => Untouched'
  BY <1>1 DEF MigrationInv, Untouched
<1>3. Committed' => Decided'
  BY <1>1, BoundKept DEF MigrationInv, Decided
<1>4. ledger'.layout = "single" => Finished'
  BY <1>1 DEF MigrationInv, Finished
<1>5. DeadlineKept'
  <2>1. Committed => ledger.control.notBefore \in Nat
    BY Controlled
  <2>2. now \in Nat /\ now' \in Nat
    BY DEF MigrationInv, Typed, TypeOK
  <2> QED
    BY <1>1, <2>1, <2>2 DEF MigrationInv, DeadlineKept
<1> QED
  BY <1>2, <1>3, <1>4, <1>5 DEF MigrationInv

\* A turn of the loop after the commit: what is public only goes forward.
LEMMA TurnMoves ==
  ASSUME MigrationInv, Committed, At("migrate", "loop"),
         UNCHANGED <<ledger, conf, now, run, stops, aborts>>,
         journal' \in JournalRecord, live' \in [View -> {Old} \cup Plan], stage' \in StageTree,
         aliases' \subseteq aliases,
         \A v \in View : live[v] # Old => live'[v] # Old,
         Bound', DeadlineKept'
  PROVE  MigrationInv'
<1>1. Committed' /\ journal' # None
  BY NoneAssumption DEF Committed
<1>2. Typed'
  BY DEF MigrationInv, Typed, TypeOK
<1>3. Decided'
  BY <1>1 DEF MigrationInv, Decided
<1>4. ledger'.layout = "single" => Finished'
  BY <1>1 DEF MigrationInv, Finished
<1>5. RunSound'
  BY <1>1 DEF RunSound, At
<1> QED
  BY <1>1, <1>2, <1>3, <1>4, <1>5 DEF MigrationInv

\* The command ends, is refused or is stopped.
LEMMA ExitSafe ==
  ASSUME MigrationInv, Exit, UNCHANGED <<ledger, disk, conf, now>>,
         stops' \in 0 .. MaxStops, aborts' \in 0 .. MaxAborts
  PROVE  MigrationInv'
<1>1. run' = Idle /\ run'.cmd = "none" /\ run'.now = 0 /\ run' \in RunRecord /\ run'.plan = None
  BY IdleFields DEF Exit
<1>2. now \in Nat /\ now <= now
  BY DEF MigrationInv, Typed, TypeOK
<1>3. Typed'
  BY <1>1, <1>2 DEF MigrationInv, Typed, TypeOK, disk
<1>4. RunSound'
  BY <1>1 DEF RunSound, At
<1>5. ~Committed => now' \in 1 .. MaxTime
  BY DEF MigrationInv, Untouched
<1> QED
  BY <1>1, <1>2, <1>3, <1>4, <1>5, RunMoves DEF disk

\* The command goes on to another step.
LEMMA GoFields ==
  ASSUME MigrationInv, NEW step \in RunStep, Go(step), run.cmd # "none"
  PROVE  /\ run' \in RunRecord /\ run'.cmd = run.cmd /\ run'.at = step
         /\ run'.now = run.now /\ run'.plan = run.plan /\ run' # Idle
<1>1. run \in RunRecord
  BY DEF MigrationInv, Typed
<1>2. /\ run' \in RunRecord /\ run'.cmd = run.cmd /\ run'.at = step
      /\ run'.now = run.now /\ run'.plan = run.plan
  BY <1>1 DEF Go, RunRecord
<1> QED
  BY <1>2, IdleFields

\* A running command goes on, and nothing else changes.
LEMMA GoSafe ==
  ASSUME MigrationInv, NEW step \in RunStep, Go(step), run.cmd # "none",
         UNCHANGED <<ledger, disk, conf, now, stops, aborts>>, RunSound',
         Committed => run.cmd = "migrate"
                      /\ step \in {"open", "repaired", "loop", "completed", "unstage"}
  PROVE  MigrationInv'
<1>1. /\ run' \in RunRecord /\ run'.cmd = run.cmd /\ run'.at = step
      /\ run'.now = run.now /\ run'.plan = run.plan /\ run' # Idle
  BY GoFields
<1>2. now \in Nat /\ now <= now
  BY DEF MigrationInv, Typed, TypeOK
<1>3. Typed'
  BY <1>1, <1>2 DEF MigrationInv, Typed, TypeOK, disk, RunRecord
<1>4. ~Committed => now' \in 1 .. MaxTime /\ (run'.cmd = "migrate" => run'.now \in Plan)
  BY <1>1 DEF MigrationInv, Untouched
<1> QED
  BY <1>1, <1>2, <1>3, <1>4, RunMoves DEF disk

-----------------------------------------------------------------------------
(* Commands start and stop, time passes *)

\* StartMigrate reads the clock.
LEMMA StartMigrateSafe ==
  ASSUME MigrationInv, NEW grace \in {Grace, LongGrace}, StartMigrate(grace)
  PROVE  MigrationInv'
<1>1. now \in Nat /\ now <= now /\ grace \in Nat
  BY MigrationAssumption DEF MigrationInv, Typed, TypeOK
<1>2. /\ run' = [Idle EXCEPT !.cmd = "migrate", !.at = "open", !.now = now, !.grace = grace]
      /\ UNCHANGED <<ledger, disk, conf, now, stops, aborts>>
  BY DEF StartMigrate
<1>3. run' \in RunRecord /\ run'.cmd = "migrate" /\ run'.at = "open" /\ run'.now = now
      /\ run'.plan = None
  BY <1>1, <1>2 DEF Idle, RunRecord, RunStep
<1>4. run' # Idle
  BY <1>3, IdleFields
<1>5. Typed'
  BY <1>1, <1>2, <1>3, <1>4 DEF MigrationInv, Typed, TypeOK, disk
<1>6. RunSound'
  BY <1>3 DEF RunSound, At
<1>7. ~Committed => now' \in 1 .. MaxTime /\ run'.now \in Plan
  BY <1>2, <1>3 DEF MigrationInv, Untouched, Plan
<1> QED
  BY <1>1, <1>2, <1>3, <1>5, <1>6, <1>7, RunMoves DEF disk

\* StartAbandon is admitted only before the commit.
LEMMA StartAbandonSafe ==
  ASSUME MigrationInv, StartAbandon
  PROVE  MigrationInv'
<1>1. now \in Nat /\ now <= now /\ aborts' \in 0 .. MaxAborts /\ 0 <= now
  BY MigrationAssumption DEF MigrationInv, Typed, TypeOK, StartAbandon
<1>2. UNCHANGED <<ledger, disk, conf, now, stops>>
  BY DEF StartAbandon
<1>3. CASE ~Abandonable
  <2>1. Exit /\ stops' \in 0 .. MaxStops
    BY <1>2, <1>3 DEF StartAbandon, Exit, MigrationInv, Typed, TypeOK
  <2> QED
    BY <1>1, <1>2, <2>1, ExitSafe
<1>4. CASE Abandonable
  <2>1. run' = [Idle EXCEPT !.cmd = "abandon", !.at = "stage"]
    BY <1>4 DEF StartAbandon
  <2>2. run' \in RunRecord /\ run'.cmd = "abandon" /\ run'.at = "stage" /\ run'.now = 0
        /\ run'.plan = None
    BY <2>1 DEF Idle, RunRecord, RunStep
  <2>3. run' # Idle
    BY <2>2, IdleFields
  <2>4. Typed'
    BY <1>1, <1>2, <2>2, <2>3 DEF MigrationInv, Typed, TypeOK, disk
  <2>5. RunSound'
    BY <2>2 DEF RunSound, At
  <2>6. ~Committed /\ now' \in 1 .. MaxTime
    BY <1>2, <1>4 DEF MigrationInv, Untouched, Abandonable
  <2> QED
    BY <1>1, <1>2, <2>2, <2>4, <2>5, <2>6, RunMoves DEF disk
<1> QED
  BY <1>3, <1>4

\* Stop
LEMMA StopSafe ==
  ASSUME MigrationInv, Stop
  PROVE  MigrationInv'
<1>1. stops \in 0 .. MaxStops /\ MaxStops \in Nat /\ aborts \in 0 .. MaxAborts
  BY MigrationAssumption DEF MigrationInv, Typed, TypeOK
<1>2. stops' \in 0 .. MaxStops /\ aborts' \in 0 .. MaxAborts
  BY <1>1 DEF Stop
<1> QED
  BY <1>2, ExitSafe DEF Stop

\* What a command may count on does not depend on clock, configuration and bounds.
LEMMA RunSoundKept ==
  ASSUME MigrationInv, UNCHANGED <<ledger, disk, run>>
  PROVE  RunSound'
<1>1. Committed' = Committed
  BY DEF Committed
<1>2. ledger.layout = "single" /\ Bound => Bound'
  BY BoundKept DEF MigrationInv, Finished, disk
<1> QED
  BY <1>1, <1>2 DEF MigrationInv, RunSound, At, In, disk

\* Tick: past the bound only to reach a committed deadline.
LEMMA TickSafe ==
  ASSUME MigrationInv, Tick
  PROVE  MigrationInv'
<1>1. UNCHANGED <<ledger, disk, conf, run, stops, aborts>>
  BY DEF Tick
<1>2. now \in Nat /\ run.now \in Nat /\ run.now <= now /\ MaxTime \in Nat
  BY MigrationAssumption DEF MigrationInv, Typed, TypeOK, RunRecord
<1>3. now' \in Nat /\ now <= now' /\ run.now <= now'
  BY <1>2 DEF Tick
<1>4. Typed'
  BY <1>1, <1>3 DEF MigrationInv, Typed, TypeOK, disk
<1>5. ~Committed => now' \in 1 .. MaxTime
  BY <1>2 DEF Tick, MigrationInv, Untouched
<1>6. (~Committed => (run'.cmd = "migrate" => run'.now \in Plan))
      /\ (Committed => run'.cmd # "abandon" /\ (run'.cmd = "migrate" =>
            run'.at \in {"open", "repaired", "loop", "completed", "unstage"}))
  BY <1>1 DEF MigrationInv, Untouched, Decided
<1> QED
  BY <1>1, <1>3, <1>4, <1>5, <1>6, RunSoundKept, RunMoves DEF disk

\* ChangeSigner and WriteConfig: sow.yml changes.
LEMMA ConfigSafe ==
  ASSUME MigrationInv, conf' \in [legacy : BOOLEAN, signer : BOOLEAN],
         UNCHANGED <<ledger, disk, now, run, stops, aborts>>
  PROVE  MigrationInv'
<1>1. now \in Nat /\ now <= now
  BY DEF MigrationInv, Typed, TypeOK
<1>2. Typed'
  BY DEF MigrationInv, Typed, TypeOK, disk
<1>3. (~Committed => now' \in 1 .. MaxTime /\ (run'.cmd = "migrate" => run'.now \in Plan))
      /\ (Committed => run'.cmd # "abandon" /\ (run'.cmd = "migrate" =>
            run'.at \in {"open", "repaired", "loop", "completed", "unstage"}))
  BY DEF MigrationInv, Untouched, Decided
<1> QED
  BY <1>1, <1>2, <1>3, RunSoundKept, RunMoves DEF disk

\* sow.yml is changed by the operator or rewritten by the command.
LEMMA ConfigChanges ==
  ASSUME MigrationInv, ChangeSigner \/ WriteConfig
  PROVE  MigrationInv'
<1>1. conf \in [legacy : BOOLEAN, signer : BOOLEAN]
  BY DEF MigrationInv, Typed, TypeOK
<1>2. conf' \in [legacy : BOOLEAN, signer : BOOLEAN]
  BY <1>1 DEF ChangeSigner, WriteConfig
<1> QED
  BY <1>2, ConfigSafe DEF ChangeSigner, WriteConfig

\* An ordinary command builds a generation once the layout is single.
LEMMA BuildGenerationSafe ==
  ASSUME MigrationInv, BuildGeneration
  PROVE  MigrationInv'
<1>1. /\ ledger.layout = "single" /\ Finished /\ run = Idle /\ Decided
      /\ UNCHANGED <<disk, conf, now, run, stops, aborts>>
  BY DEF MigrationInv, BuildGeneration, Finished
<1>2. ledger \in LedgerRecord
  BY DEF MigrationInv, Typed, TypeOK, LedgerRecord
<1>3. /\ ledger' \in LedgerRecord
      /\ ledger'.layout = "single" /\ ledger'.gen = Later /\ ledger'.receipt = ledger.receipt
      /\ ledger'.control = ledger.control
  BY <1>1, <1>2 DEF BuildGeneration, LedgerRecord
<1>4. Committed' /\ Committed
  BY <1>1, <1>3 DEF Finished, Committed
<1>5. Typed'
  BY <1>1, <1>3 DEF MigrationInv, Typed, TypeOK, disk, LedgerRecord
<1>6. Decided'
  BY <1>1, <1>3 DEF Decided, disk
<1>7. Finished'
  BY <1>1, <1>3, <1>4 DEF Finished, disk, Later, Base
<1>8. DeadlineKept'
  BY <1>1, <1>3, <1>4 DEF MigrationInv, DeadlineKept, disk
<1>9. RunSound'
  BY <1>1, IdleFields DEF RunSound, At
<1> QED
  BY <1>4, <1>5, <1>6, <1>7, <1>8, <1>9 DEF MigrationInv

-----------------------------------------------------------------------------
(* Entry and planning *)

\* The journal advances while ledger and tree stay: the layout is single.
LEMMA JournalDone ==
  ASSUME MigrationInv, ledger.layout = "single", In("final_manifest"), Bound, SetPhase("done"),
         UNCHANGED <<ledger, live, stage, aliases, now>>
  PROVE  journal' \in JournalRecord /\ Bound' /\ DeadlineKept'
<1>1. journal \in JournalRecord /\ journal # None /\ journal.phase = "final_manifest" /\ Committed
  BY Journaled DEF In, MigrationInv, Finished
<1>2. /\ journal' \in JournalRecord /\ journal'.phase = "done" /\ journal'.plan = journal.plan
      /\ journal'.deadline = journal.deadline /\ journal'.pointer = journal.pointer
      /\ journal'.alias = journal.alias
  BY <1>1, PhaseNames DEF SetPhase, JournalRecord
<1>3. Committed'
  BY <1>1 DEF Committed
<1>4. LedgerBound' /\ ControlBound' /\ PointersBound' /\ AliasesBound' /\ TreesBound'
  BY <1>1, <1>2, <1>3, Ranks
     DEF Bound, LedgerBound, ControlBound, PointersBound, AliasesBound, TreesBound
<1>5. Alias = {} \/ now >= ledger.control.notBefore
  BY <1>1, Ranks DEF MigrationInv, DeadlineKept
<1> QED
  BY <1>2, <1>4, <1>5, Ranks DEF Bound, DeadlineKept

\* A journal left at final_manifest is repaired.
LEMMA RepairDoneSafe ==
  ASSUME MigrationInv, RepairDone
  PROVE  MigrationInv'
<1>1. /\ ledger.layout = "single" /\ Go("repaired") /\ run.cmd = "migrate"
      /\ UNCHANGED <<ledger, live, stage, aliases, conf, now, stops, aborts>>
  BY DEF RepairDone, At
<1>2. journal' \in JournalRecord /\ Bound' /\ DeadlineKept'
  BY JournalDone DEF RepairDone
<1>3. /\ run' \in RunRecord /\ run'.cmd = "migrate" /\ run'.at = "repaired" /\ run'.now = run.now
      /\ run'.plan = run.plan /\ run' # Idle
  BY <1>1, GoFields DEF RunStep
<1>4. Committed' /\ Finished /\ journal' # None
  BY <1>1, <1>2, NoneAssumption DEF MigrationInv, Finished, Committed
<1>5. Typed'
  BY <1>1, <1>2, <1>3 DEF MigrationInv, Typed, TypeOK, RunRecord
<1>6. Decided' /\ Finished'
  BY <1>1, <1>2, <1>3, <1>4 DEF Decided, Finished
<1>7. RunSound'
  BY <1>1, <1>3 DEF RunSound, At
<1> QED
  BY <1>2, <1>4, <1>5, <1>6, <1>7 DEF MigrationInv

\* The journal of a finished migration is cleared, from either place.
LEMMA JournalCleared ==
  ASSUME MigrationInv, ledger.layout = "single", journal' = None,
         UNCHANGED <<ledger, live, stage, aliases, conf, now, stops, aborts>>,
         Exit \/ (run.cmd = "migrate" /\ Go("unstage"))
  PROVE  MigrationInv'
<1>1. Committed' /\ Finished
  BY DEF MigrationInv, Finished, Committed
<1>2. now \in Nat
  BY DEF MigrationInv, Typed, TypeOK
<1>3. /\ run' \in RunRecord /\ run'.now <= now
      /\ run' = Idle \/ (run' # Idle /\ run'.cmd = "migrate" /\ run'.at = "unstage")
  BY <1>2, IdleFields, GoFields DEF Exit, RunStep, MigrationInv, Typed
<1>4. Typed'
  BY <1>3, IdleFields DEF MigrationInv, Typed, TypeOK, RunRecord
<1>5. Decided' /\ Finished' /\ DeadlineKept'
  BY <1>1, <1>3, IdleFields DEF Decided, Finished, DeadlineKept
<1>6. RunSound'
  BY <1>3, IdleFields DEF RunSound, At
<1> QED
  BY <1>1, <1>4, <1>5, <1>6 DEF MigrationInv

\* ClearTerminal
LEMMA ClearTerminalSafe ==
  ASSUME MigrationInv, ClearTerminal
  PROVE  MigrationInv'
<1>1. ledger.layout = "single"
  BY DEF ClearTerminal, MigrationInv, RunSound
<1> QED
  BY <1>1, JournalCleared DEF ClearTerminal

\* ClearTransitionJournal
LEMMA ClearTransitionJournalSafe ==
  ASSUME MigrationInv, ClearTransitionJournal
  PROVE  MigrationInv'
  BY JournalCleared DEF ClearTransitionJournal, Turn, At

\* The counters stay in their bounds.
LEMMA Counters ==
  ASSUME MigrationInv
  PROVE  stops \in 0 .. MaxStops /\ aborts \in 0 .. MaxAborts
  BY DEF MigrationInv, Typed, TypeOK

\* AlreadyDone, AwaitGrace and Refuse only end the command.
LEMMA EndsSafe ==
  ASSUME MigrationInv, AlreadyDone \/ AwaitGrace \/ Refuse
  PROVE  MigrationInv'
  BY Counters, ExitSafe DEF AlreadyDone, AwaitGrace, Refuse

\* Resume: there is a journal to go on from.
LEMMA ResumeSafe ==
  ASSUME MigrationInv, Resume
  PROVE  MigrationInv'
<1>1. run.cmd = "migrate" /\ Go("loop") /\ UNCHANGED <<ledger, disk, conf, now, stops, aborts>>
      /\ journal # None
  BY DEF Resume, At
<1>2. run'.cmd = "migrate" /\ run'.at = "loop"
  BY <1>1, GoFields DEF RunStep
<1>3. RunSound'
  BY <1>1, <1>2 DEF RunSound, At, disk
<1> QED
  BY <1>1, <1>3, GoSafe DEF RunStep

\* PreserveStage: the plan is this command's, or the anchored one.
LEMMA PreserveStageSafe ==
  ASSUME MigrationInv, PreserveStage
  PROVE  MigrationInv'
<1>1. /\ ~Committed /\ journal = None /\ run.cmd = "migrate" /\ stage' = None
      /\ UNCHANGED <<ledger, journal, live, aliases, conf, now, stops, aborts>>
  BY DEF PreserveStage, At
<1>2. run \in RunRecord /\ run.now \in Plan /\ now \in 1 .. MaxTime /\ now \in Nat /\ now <= now
      /\ run.now <= now
  BY <1>1 DEF MigrationInv, Typed, TypeOK, Untouched
<1>3. PICK p \in Plan : run' = [run EXCEPT !.at = "plan", !.plan = p]
  BY <1>2, Controlled DEF PreserveStage
<1>4. run' \in RunRecord /\ run'.cmd = "migrate" /\ run'.at = "plan" /\ run'.plan = p
      /\ run'.now = run.now
  BY <1>1, <1>2, <1>3 DEF RunRecord, RunStep
<1>5. Typed'
  BY <1>1, <1>2, <1>4, IdleFields DEF MigrationInv, Typed, TypeOK
<1>6. Committed' = Committed
  BY <1>1 DEF Committed
<1>7. RunSound'
  BY <1>1, <1>4, <1>6 DEF RunSound, At
<1> QED
  BY <1>1, <1>2, <1>4, <1>5, <1>7, RunMoves

\* The ledger is a whole record.
LEMMA LedgerTyped ==
  ASSUME MigrationInv
  PROVE  ledger \in LedgerRecord
  BY DEF MigrationInv, Typed, TypeOK, LedgerRecord

\* The ledger and the stage change before the commit; nothing public does.
LEMMA PlanMoves ==
  ASSUME MigrationInv, ~Committed, ~Committed', journal = None,
         UNCHANGED <<journal, live, aliases, conf, now, stops, aborts>>,
         ledger' \in LedgerRecord,
         ledger'.layout = ledger.layout, ledger'.gen = ledger.gen, ledger'.receipt = ledger.receipt,
         stage' \in {None} \cup StageTree,
         run' \in RunRecord, run'.cmd = "migrate", run.cmd = "migrate", run'.now = run.now, RunSound'
  PROVE  MigrationInv'
<1>1. Untouched /\ run' # Idle
  BY IdleFields DEF MigrationInv
<1>2. Typed'
  BY <1>1 DEF MigrationInv, Typed, TypeOK, RunRecord, LedgerRecord
<1>3. Untouched' /\ ledger'.layout # "single" /\ DeadlineKept'
  BY <1>1 DEF Untouched, DeadlineKept
<1> QED
  BY <1>2, <1>3 DEF MigrationInv

\* MakeStage: an empty tree for the views.
LEMMA MakeStageSafe ==
  ASSUME MigrationInv, MakeStage
  PROVE  MigrationInv'
<1>1. /\ run.cmd = "migrate" /\ ~Committed /\ journal = None /\ run.plan \in Plan /\ Go("render")
      /\ UNCHANGED <<journal, live, aliases, conf, now, stops, aborts>>
  BY DEF MakeStage, At, MigrationInv, RunSound
<1>2. run' \in RunRecord /\ run'.cmd = "migrate" /\ run'.at = "render" /\ run'.now = run.now
      /\ run'.plan = run.plan
  BY <1>1, GoFields DEF RunStep
<1>3. /\ ledger' \in LedgerRecord
      /\ ledger'.layout = ledger.layout /\ ledger'.gen = ledger.gen
      /\ ledger'.receipt = ledger.receipt /\ ledger'.control = ledger.control
  BY LedgerTyped DEF MakeStage, LedgerRecord
<1>4. ~Committed'
  BY <1>1, <1>3 DEF Committed
<1>5. stage' \in StageTree /\ stage' \in [View -> {None, run.plan}]
  BY DEF MakeStage, StageTree
<1>6. RunSound'
  BY <1>1, <1>2, <1>4, <1>5 DEF RunSound, At
<1> QED
  BY <1>1, <1>2, <1>3, <1>4, <1>5, <1>6, PlanMoves

\* RenderView
LEMMA RenderViewSafe ==
  ASSUME MigrationInv, NEW v \in View, RenderView(v)
  PROVE  MigrationInv'
<1>1. /\ run.cmd = "migrate" /\ run.at = "render" /\ ~Committed /\ journal = None
      /\ run.plan \in Plan /\ stage \in [View -> {None, run.plan}]
      /\ stage' = [stage EXCEPT ![v] = run.plan] /\ run \in RunRecord
      /\ UNCHANGED <<ledger, journal, live, aliases, conf, now, run, stops, aborts>>
  BY DEF RenderView, At, MigrationInv, RunSound, Typed
<1>2. ~Committed'
  BY <1>1 DEF Committed
<1>3. stage' \in StageTree /\ stage' \in [View -> {None, run.plan}]
  BY <1>1 DEF StageTree
<1>4. RunSound'
  BY <1>1, <1>2, <1>3 DEF RunSound, At
<1> QED
  BY <1>1, <1>2, <1>3, <1>4, LedgerTyped, PlanMoves

\* AnchorLayoutTransitionPlan does not commit.
LEMMA AnchorLayoutTransitionPlanSafe ==
  ASSUME MigrationInv, AnchorLayoutTransitionPlan
  PROVE  MigrationInv'
<1>1. /\ run.cmd = "migrate" /\ ~Committed /\ journal = None /\ run.plan \in Plan /\ Go("anchored")
      /\ UNCHANGED <<disk, conf, now, stops, aborts>>
  BY DEF AnchorLayoutTransitionPlan, At, MigrationInv, RunSound
<1>2. run' \in RunRecord /\ run'.cmd = "migrate" /\ run'.at = "anchored" /\ run'.now = run.now
      /\ run'.plan = run.plan
  BY <1>1, GoFields DEF RunStep
<1>3. Control(run.plan) \in ControlRecord /\ Control(run.plan).notBefore = None
  BY <1>1 DEF Control, ControlRecord
<1>4. /\ ledger' \in LedgerRecord
      /\ ledger'.layout = ledger.layout /\ ledger'.gen = ledger.gen
      /\ ledger'.receipt = ledger.receipt /\ ledger'.control = Control(run.plan)
  BY <1>3, LedgerTyped DEF AnchorLayoutTransitionPlan, LedgerRecord
<1>5. ~Committed'
  BY <1>3, <1>4 DEF Committed
<1>6. RunSound'
  BY <1>1, <1>2, <1>4, <1>5 DEF RunSound, At, Control, disk
<1>7. stage' \in {None} \cup StageTree
  BY <1>1 DEF MigrationInv, Typed, TypeOK, disk
<1> QED
  BY <1>1, <1>2, <1>4, <1>5, <1>6, <1>7, PlanMoves DEF disk

\* PersistPlanned: the journal of the anchored plan.
LEMMA PersistPlannedSafe ==
  ASSUME MigrationInv, PersistPlanned
  PROVE  MigrationInv'
<1>1. /\ run.cmd = "migrate" /\ ~Committed /\ run.plan \in Plan /\ Go("loop")
      /\ ledger.control = Control(run.plan) /\ journal' = PlannedJournal(run.plan)
      /\ UNCHANGED <<ledger, live, stage, aliases, conf, now, stops, aborts>>
  BY DEF PersistPlanned, At, MigrationInv, RunSound
<1>2. run' \in RunRecord /\ run'.cmd = "migrate" /\ run'.at = "loop" /\ run'.now = run.now
      /\ run' # Idle
  BY <1>1, GoFields DEF RunStep
<1>3. journal' \in JournalRecord
  BY <1>1, PhaseNames DEF PlannedJournal, JournalRecord
<1>4. /\ journal'.phase = "planned" /\ journal'.plan = run.plan
      /\ \A v \in View : journal'.pointer[v] = "old"
      /\ \A a \in Alias : journal'.alias[a] = "present"
      /\ ledger.control.plan = run.plan
  BY <1>1 DEF PlannedJournal, Control
<1>5. ~Committed' /\ journal' # None /\ Untouched
  BY <1>1, <1>3, NoneAssumption DEF Committed, MigrationInv
<1>6. Typed'
  BY <1>1, <1>2, <1>3 DEF MigrationInv, Typed, TypeOK, RunRecord
<1>7. Abandonable'
  BY <1>1, <1>4, <1>5, Ranks DEF Abandonable, Untouched
<1>8. Untouched' /\ ledger'.layout # "single" /\ DeadlineKept'
  BY <1>1, <1>2, <1>5, <1>7 DEF Untouched, DeadlineKept
<1>9. RunSound'
  BY <1>2, <1>5 DEF RunSound, At
<1> QED
  BY <1>5, <1>6, <1>8, <1>9 DEF MigrationInv

-----------------------------------------------------------------------------
(* The phases *)

\* SetPhase changes one field of the journal.
LEMMA PhaseSet ==
  ASSUME journal \in JournalRecord, NEW p \in {Phase[k] : k \in 1 .. 8}, SetPhase(p)
  PROVE  /\ journal' \in JournalRecord /\ journal'.phase = p /\ journal'.plan = journal.plan
         /\ journal'.deadline = journal.deadline /\ journal'.pointer = journal.pointer
         /\ journal'.alias = journal.alias
  BY DEF SetPhase, JournalRecord

\* SetStaged: not committed yet.
LEMMA SetStagedSafe ==
  ASSUME MigrationInv, SetStaged
  PROVE  MigrationInv'
<1>1. /\ journal \in JournalRecord /\ journal # None /\ journal.phase = "planned" /\ Bound
      /\ run.cmd = "migrate" /\ run.at = "loop" /\ SetPhase("staged")
      /\ UNCHANGED <<ledger, live, stage, aliases, conf, now, run, stops, aborts>>
  BY Turning DEF SetStaged, At
<1>2. /\ journal' \in JournalRecord /\ journal'.phase = "staged" /\ journal'.plan = journal.plan
      /\ journal'.pointer = journal.pointer /\ journal'.alias = journal.alias
  BY <1>1, PhaseSet, PhaseNames
<1>3. ~Committed /\ Untouched
  BY <1>1, Ranks DEF Bound, ControlBound, MigrationInv
<1>4. ~Committed' /\ journal' # None
  BY <1>1, <1>2, <1>3, NoneAssumption DEF Committed
<1>5. Typed'
  BY <1>1, <1>2 DEF MigrationInv, Typed, TypeOK
<1>6. Abandonable'
  BY <1>1, <1>2, <1>3, <1>4, Ranks DEF Untouched, Abandonable
<1>7. Untouched' /\ ledger'.layout # "single" /\ DeadlineKept'
  BY <1>1, <1>3, <1>4, <1>6 DEF Untouched, DeadlineKept
<1>8. RunSound'
  BY <1>1, <1>4 DEF RunSound, At
<1> QED
  BY <1>4, <1>5, <1>7, <1>8 DEF MigrationInv

\* CommitLayoutTransitionPlan gives the anchored plan its deadline.
LEMMA Commits ==
  ASSUME MigrationInv, CommitLayoutTransitionPlan
  PROVE  /\ ledger' \in LedgerRecord /\ Committed' /\ ~Committed
         /\ ledger'.control.plan = ledger.control.plan /\ ledger'.layout = ledger.layout
         /\ ledger'.gen = ledger.gen /\ ledger'.receipt = ledger.receipt
         /\ ledger'.control # None
<1>1. ledger.control \in ControlRecord /\ ledger.control # None /\ ~Committed
  BY Controlled DEF CommitLayoutTransitionPlan, Turn, Bound, ControlBound
<1>2. run.now + run.grace \in Nat
  BY DEF MigrationInv, Typed, RunRecord
<1> DEFINE c == [ledger.control EXCEPT !.notBefore = run.now + run.grace]
<1>3. c \in ControlRecord /\ c.plan = ledger.control.plan /\ c.notBefore \in Nat
  BY <1>1, <1>2 DEF ControlRecord
<1>4. ledger' = [ledger EXCEPT !.control = c]
  BY DEF CommitLayoutTransitionPlan
<1> HIDE DEF c
<1>5. /\ ledger' \in LedgerRecord /\ ledger'.control = c /\ ledger'.layout = ledger.layout
      /\ ledger'.gen = ledger.gen /\ ledger'.receipt = ledger.receipt
  BY <1>3, <1>4, LedgerTyped DEF LedgerRecord
<1>6. Committed'
  BY <1>3, <1>5, NoneAssumption DEF Committed
<1> QED
  BY <1>1, <1>3, <1>5, <1>6, NoneAssumption

\* From then on the journal is bound to the committed plan.
LEMMA CommitLayoutTransitionPlanSafe ==
  ASSUME MigrationInv, CommitLayoutTransitionPlan
  PROVE  MigrationInv'
<1>1. /\ journal \in JournalRecord /\ journal # None /\ journal.phase = "staged" /\ Bound
      /\ run.cmd = "migrate" /\ run.at = "loop"
      /\ UNCHANGED <<disk, conf, now, run, stops, aborts>>
  BY Turning DEF CommitLayoutTransitionPlan, At
<1>2. Bound'
  <2>1. LedgerBound'
    BY <1>1, Commits DEF Bound, LedgerBound, disk
  <2>2. ControlBound'
    BY <1>1, Commits, Ranks DEF Bound, ControlBound, disk
  <2> QED
    BY <1>1, <2>1, <2>2 DEF Bound, PointersBound, AliasesBound, TreesBound, disk
<1>3. Typed'
  BY <1>1, Commits DEF MigrationInv, Typed, TypeOK, LedgerRecord, disk
<1>4. Decided' /\ DeadlineKept'
  BY <1>1, <1>2, Ranks DEF Decided, DeadlineKept, disk
<1>5. ledger'.layout # "single"
  BY Commits DEF MigrationInv, Untouched
<1>6. RunSound'
  BY <1>1 DEF RunSound, At, disk
<1> QED
  BY <1>3, <1>4, <1>5, <1>6, Commits DEF MigrationInv

\* The parts of the binding that stay when the journal only changes its phase.
LEMMA PhaseBound ==
  ASSUME MigrationInv, Committed, journal # None, Bound, UNCHANGED <<ledger, live, stage, aliases>>,
         NEW p \in {Phase[k] : k \in 1 .. 8}, SetPhase(p),
         Rank(p) >= Rank("staged"), Rank(journal.phase) <= Rank(p), Rank(p) \in Nat,
         Rank(journal.phase) \in Nat,
         Rank(journal.phase) < Rank("final_manifest") => ledger.layout = "c2_to_single",
         Rank(p) >= Rank("grace") => Rank(journal.phase) >= Rank("grace")
  PROVE  LedgerBound' /\ ControlBound' /\ TreesBound' /\ Committed'
<1>1. /\ journal' \in JournalRecord /\ journal'.phase = p /\ journal'.plan = journal.plan
      /\ journal'.deadline = journal.deadline
  BY Journaled, PhaseSet
<1>2. Committed'
  BY DEF Committed
<1>3. LedgerBound'
  BY <1>1, Ranks DEF Bound, LedgerBound
<1>4. ControlBound' /\ TreesBound'
  BY <1>1, <1>2 DEF Bound, ControlBound, TreesBound
<1> QED
  BY <1>2, <1>3, <1>4

\* From commit_intent on the plan is committed.
LEMMA CommittedTurn ==
  ASSUME MigrationInv, NEW p, Turn(p), Rank(p) \in Nat, Rank(p) >= Rank("commit_intent")
  PROVE  Committed /\ ledger.control.plan = journal.plan
<1>1. ControlBound /\ journal.phase = p
  BY DEF Turn, In, Bound
<1>2. Rank("commit_intent") = 3
  BY Ranks
<1> QED
  BY <1>1, <1>2 DEF ControlBound

\* Before final_manifest the ledger has the old layout.
LEMMA OldLayout ==
  ASSUME journal # None, Bound, Rank(journal.phase) < Rank("final_manifest"),
         Rank(journal.phase) \in Nat
  PROVE  ledger.layout = "c2_to_single"
  BY Ranks DEF Bound, LedgerBound

\* SetCommitIntent and SetRollForward: no view is exchanged yet.
LEMMA CommitIntentSafe ==
  ASSUME MigrationInv, SetCommitIntent \/ SetRollForward
  PROVE  MigrationInv'
<1>1. PICK p \in {"commit_intent", "pointer_rollforward"} :
        /\ SetPhase(p) /\ journal.phase = IF p = "commit_intent" THEN "staged" ELSE "commit_intent"
        /\ journal \in JournalRecord /\ journal # None /\ Bound /\ At("migrate", "loop")
        /\ UNCHANGED <<ledger, live, stage, aliases, conf, now, run, stops, aborts>>
  BY Turning DEF SetCommitIntent, SetRollForward
<1>2. Committed
  <2>1. CASE SetCommitIntent
    BY <2>1 DEF SetCommitIntent
  <2>2. CASE SetRollForward
    BY <2>2, CommittedTurn, Ranks DEF SetRollForward
  <2> QED
    BY <2>1, <2>2
<1>3. p \in {Phase[k] : k \in 1 .. 8} /\ Rank(p) \in {3, 4} /\ Rank(journal.phase) < Rank(p)
      /\ Rank(journal.phase) \in {2, 3}
  BY <1>1, PhaseNames, Ranks
<1>4. /\ journal' \in JournalRecord /\ journal'.phase = p
      /\ journal'.pointer = journal.pointer /\ journal'.alias = journal.alias
  BY <1>1, <1>3, PhaseSet
<1>5. ledger.layout = "c2_to_single"
  BY <1>1, <1>3, OldLayout, Ranks
<1>6. LedgerBound' /\ ControlBound' /\ TreesBound'
  BY <1>1, <1>2, <1>3, <1>5, PhaseBound, Ranks
<1>7. PointersBound' /\ AliasesBound'
  BY <1>1, <1>3, <1>4, Ranks DEF Bound, PointersBound, AliasesBound
<1>8. DeadlineKept'
  BY <1>3, <1>4, Ranks DEF DeadlineKept
<1>9. live' \in [View -> {Old} \cup Plan] /\ stage' \in StageTree
  BY <1>1 DEF MigrationInv, Typed, TypeOK, Bound, TreesBound
<1>10. Bound'
  BY <1>6, <1>7 DEF Bound
<1> QED
  BY <1>1, <1>2, <1>4, <1>8, <1>9, <1>10, TurnMoves

\* ExchangeView: the committed plan's metadata for the old.
LEMMA ExchangeViewSafe ==
  ASSUME MigrationInv, NEW v \in View, ExchangeView(v)
  PROVE  MigrationInv' /\ live' = [live EXCEPT ![v] = ledger.control.plan] /\ Committed
<1>1. /\ journal \in JournalRecord /\ journal # None /\ journal.phase = "pointer_rollforward" /\ Bound
      /\ At("migrate", "loop") /\ live[v] = Old
      /\ live' = [live EXCEPT ![v] = stage[v]] /\ stage' = [stage EXCEPT ![v] = live[v]]
      /\ UNCHANGED <<ledger, journal, aliases, conf, now, run, stops, aborts>>
  BY Turning DEF ExchangeView, Exchange
<1>2. Committed /\ ledger.control.plan = journal.plan
  BY CommittedTurn, Ranks DEF ExchangeView
<1>3. live \in [View -> {Old} \cup Plan] /\ stage \in StageTree /\ journal.plan \in Plan
  BY <1>1 DEF MigrationInv, Typed, TypeOK, Bound, TreesBound, JournalRecord
<1>4. stage[v] = journal.plan /\ journal.plan # Old
  BY <1>1, <1>3, PlanNotOld DEF Bound, TreesBound
<1>5. /\ live' \in [View -> {Old} \cup Plan] /\ stage' \in StageTree
      /\ live'[v] = journal.plan /\ stage'[v] = Old
      /\ \A w \in View : w # v => live'[w] = live[w] /\ stage'[w] = stage[w]
  BY <1>1, <1>3, <1>4 DEF StageTree
<1>6. Committed'
  BY <1>1, <1>2 DEF Committed
<1>7. LedgerBound' /\ ControlBound' /\ AliasesBound'
  BY <1>1, <1>2, <1>6 DEF Bound, LedgerBound, ControlBound, AliasesBound
<1>8. PointersBound'
  BY <1>1, <1>4, <1>5, Ranks DEF Bound, PointersBound
<1>9. TreesBound'
  BY <1>1, <1>5, NoneAssumption DEF Bound, TreesBound
<1>10. DeadlineKept'
  BY <1>1, Ranks DEF DeadlineKept
<1>11. \A w \in View : live[w] # Old => live'[w] # Old
  BY <1>4, <1>5
<1>12. Bound'
  BY <1>7, <1>8, <1>9 DEF Bound
<1>13. MigrationInv'
  BY <1>1, <1>2, <1>5, <1>10, <1>11, <1>12, TurnMoves
<1> QED
  BY <1>1, <1>2, <1>4, <1>13

\* SetPointer journals a view that is exchanged.
LEMMA SetPointerSafe ==
  ASSUME MigrationInv, NEW v \in View, SetPointer(v)
  PROVE  MigrationInv'
<1>1. /\ journal \in JournalRecord /\ journal # None /\ journal.phase = "pointer_rollforward" /\ Bound
      /\ At("migrate", "loop") /\ live[v] # Old
      /\ journal' = [journal EXCEPT !.pointer[v] = "new"]
      /\ UNCHANGED <<ledger, live, stage, aliases, conf, now, run, stops, aborts>>
  BY Turning DEF SetPointer, Unjournaled
<1>2. Committed
  BY CommittedTurn, Ranks DEF SetPointer
<1>3. /\ journal' \in JournalRecord /\ journal'.phase = journal.phase /\ journal'.plan = journal.plan
      /\ journal'.deadline = journal.deadline /\ journal'.alias = journal.alias
      /\ \A w \in View : w # v => journal'.pointer[w] = journal.pointer[w]
  BY <1>1 DEF JournalRecord
<1>4. Committed'
  BY <1>1, <1>2 DEF Committed
<1>5. LedgerBound' /\ ControlBound' /\ AliasesBound' /\ TreesBound'
  BY <1>1, <1>2, <1>3, <1>4 DEF Bound, LedgerBound, ControlBound, AliasesBound, TreesBound
<1>6. PointersBound'
  BY <1>1, <1>3, Ranks DEF Bound, PointersBound
<1>7. DeadlineKept'
  BY <1>1, <1>3, Ranks DEF DeadlineKept
<1>8. live' \in [View -> {Old} \cup Plan] /\ stage' \in StageTree
  BY <1>1 DEF MigrationInv, Typed, TypeOK, Bound, TreesBound
<1>9. Bound'
  BY <1>5, <1>6 DEF Bound
<1> QED
  BY <1>1, <1>2, <1>3, <1>7, <1>8, <1>9, TurnMoves

\* SetGrace: every view is exchanged, and the deadline is the committed one.
LEMMA SetGraceSafe ==
  ASSUME MigrationInv, SetGrace
  PROVE  MigrationInv'
<1>1. /\ journal \in JournalRecord /\ journal # None /\ journal.phase = "pointer_rollforward" /\ Bound
      /\ At("migrate", "loop") /\ \A v \in View : journal.pointer[v] = "new"
      /\ journal' = [journal EXCEPT !.phase = "grace", !.deadline = ledger.control.notBefore]
      /\ UNCHANGED <<ledger, live, stage, aliases, conf, now, run, stops, aborts>>
  BY Turning DEF SetGrace
<1>2. Committed
  BY CommittedTurn, Ranks DEF SetGrace
<1>3. /\ journal' \in JournalRecord /\ journal'.phase = "grace" /\ journal'.plan = journal.plan
      /\ journal'.deadline = ledger.control.notBefore /\ journal'.alias = journal.alias
      /\ journal'.pointer = journal.pointer
  BY <1>1, <1>2, Controlled, PhaseNames DEF JournalRecord
<1>4. Committed'
  BY <1>1, <1>2 DEF Committed
<1>5. ledger.layout = "c2_to_single"
  BY <1>1, OldLayout, Ranks
<1>6. LedgerBound' /\ ControlBound' /\ TreesBound'
  BY <1>1, <1>2, <1>3, <1>4, <1>5, Ranks DEF Bound, LedgerBound, ControlBound, TreesBound
<1>7. PointersBound' /\ AliasesBound'
  BY <1>1, <1>3, Ranks DEF Bound, PointersBound, AliasesBound
<1>8. DeadlineKept'
  BY <1>3, Ranks DEF DeadlineKept
<1>9. live' \in [View -> {Old} \cup Plan] /\ stage' \in StageTree
  BY <1>1 DEF MigrationInv, Typed, TypeOK, Bound, TreesBound
<1>10. Bound'
  BY <1>6, <1>7 DEF Bound
<1> QED
  BY <1>1, <1>2, <1>3, <1>8, <1>9, <1>10, TurnMoves

\* SetAliasDelete: the grace is over on the command's clock, so on every later one.
LEMMA SetAliasDeleteSafe ==
  ASSUME MigrationInv, SetAliasDelete
  PROVE  MigrationInv'
<1>1. /\ journal \in JournalRecord /\ journal # None /\ journal.phase = "grace" /\ Bound
      /\ At("migrate", "loop") /\ SetPhase("alias_delete")
      /\ UNCHANGED <<ledger, live, stage, aliases, conf, now, run, stops, aborts>>
  BY Turning DEF SetAliasDelete
<1>2. Committed
  BY CommittedTurn, Ranks DEF SetAliasDelete
<1>3. /\ journal' \in JournalRecord /\ journal'.phase = "alias_delete"
      /\ journal'.pointer = journal.pointer /\ journal'.alias = journal.alias
  BY <1>1, PhaseSet, PhaseNames
<1>4. ledger.layout = "c2_to_single"
  BY <1>1, OldLayout, Ranks
<1>5. LedgerBound' /\ ControlBound' /\ TreesBound'
  BY <1>1, <1>2, <1>4, PhaseBound, Ranks, PhaseNames
<1>6. PointersBound' /\ AliasesBound'
  BY <1>1, <1>3, Ranks DEF Bound, PointersBound, AliasesBound
<1>7. Alias = {} \/ now >= ledger.control.notBefore
  <2>1. journal.deadline = ledger.control.notBefore
    BY <1>1, <1>2, Ranks DEF Bound, ControlBound
  <2>2. Alias = {} \/ run.now >= ledger.control.notBefore
    BY <2>1 DEF SetAliasDelete, GraceOver
  <2>3. run.now \in Nat /\ now \in Nat /\ run.now <= now /\ ledger.control.notBefore \in Nat
    BY <1>2, Controlled DEF MigrationInv, Typed, TypeOK, RunRecord
  <2> QED
    BY <2>2, <2>3
<1>8. DeadlineKept'
  BY <1>1, <1>7 DEF DeadlineKept
<1>9. live' \in [View -> {Old} \cup Plan] /\ stage' \in StageTree
  BY <1>1 DEF MigrationInv, Typed, TypeOK, Bound, TreesBound
<1>10. Bound'
  BY <1>5, <1>6 DEF Bound
<1> QED
  BY <1>1, <1>2, <1>3, <1>8, <1>9, <1>10, TurnMoves

\* RemoveAlias: every view is exchanged and the deadline is over.
LEMMA RemoveAliasSafe ==
  ASSUME MigrationInv, NEW a \in Alias, RemoveAlias(a)
  PROVE  /\ MigrationInv' /\ Committed /\ aliases' = aliases \ {a}
         /\ \A v \in View : live[v] # Old
         /\ now >= ledger.control.notBefore
<1>1. /\ journal \in JournalRecord /\ journal # None /\ journal.phase = "alias_delete" /\ Bound
      /\ At("migrate", "loop") /\ aliases' = aliases \ {a}
      /\ UNCHANGED <<ledger, journal, live, stage, conf, now, run, stops, aborts>>
  BY Turning DEF RemoveAlias
<1>2. Committed
  BY CommittedTurn, Ranks DEF RemoveAlias
<1>3. Committed'
  BY <1>1, <1>2 DEF Committed
<1>4. LedgerBound' /\ ControlBound' /\ PointersBound' /\ TreesBound'
  BY <1>1, <1>2, <1>3 DEF Bound, LedgerBound, ControlBound, PointersBound, TreesBound
<1>5. AliasesBound'
  BY <1>1, Ranks DEF Bound, AliasesBound
<1>6. now >= ledger.control.notBefore /\ DeadlineKept'
  BY <1>1, <1>2, Ranks DEF MigrationInv, DeadlineKept
<1>7. live' \in [View -> {Old} \cup Plan] /\ stage' \in StageTree
  BY <1>1 DEF MigrationInv, Typed, TypeOK, Bound, TreesBound
<1>8. \A v \in View : live[v] # Old
  BY <1>1, Ranks DEF Bound, PointersBound
<1>9. Bound'
  BY <1>4, <1>5 DEF Bound
<1>10. MigrationInv'
  BY <1>1, <1>2, <1>6, <1>7, <1>9, TurnMoves
<1> QED
  BY <1>1, <1>2, <1>6, <1>8, <1>10

\* SetAliasDeleted journals an alias that is gone.
LEMMA SetAliasDeletedSafe ==
  ASSUME MigrationInv, NEW a \in Alias, SetAliasDeleted(a)
  PROVE  MigrationInv'
<1>1. /\ journal \in JournalRecord /\ journal # None /\ journal.phase = "alias_delete" /\ Bound
      /\ At("migrate", "loop") /\ a \notin aliases
      /\ journal' = [journal EXCEPT !.alias[a] = "deleted"]
      /\ UNCHANGED <<ledger, live, stage, aliases, conf, now, run, stops, aborts>>
  BY Turning DEF SetAliasDeleted, UnjournaledAliases
<1>2. Committed
  BY CommittedTurn, Ranks DEF SetAliasDeleted
<1>3. /\ journal' \in JournalRecord /\ journal'.phase = journal.phase /\ journal'.plan = journal.plan
      /\ journal'.deadline = journal.deadline /\ journal'.pointer = journal.pointer
      /\ \A b \in Alias : b # a => journal'.alias[b] = journal.alias[b]
  BY <1>1 DEF JournalRecord
<1>4. Committed'
  BY <1>1, <1>2 DEF Committed
<1>5. LedgerBound' /\ ControlBound' /\ PointersBound' /\ TreesBound'
  BY <1>1, <1>2, <1>3, <1>4 DEF Bound, LedgerBound, ControlBound, PointersBound, TreesBound
<1>6. AliasesBound'
  BY <1>1, <1>3, Ranks DEF Bound, AliasesBound
<1>7. DeadlineKept'
  BY <1>1, <1>2, <1>3, Ranks DEF MigrationInv, DeadlineKept
<1>8. live' \in [View -> {Old} \cup Plan] /\ stage' \in StageTree
  BY <1>1 DEF MigrationInv, Typed, TypeOK, Bound, TreesBound
<1>9. Bound'
  BY <1>5, <1>6 DEF Bound
<1> QED
  BY <1>1, <1>2, <1>3, <1>7, <1>8, <1>9, TurnMoves

\* SetFinalManifest: no alias is left.
LEMMA SetFinalManifestSafe ==
  ASSUME MigrationInv, SetFinalManifest
  PROVE  MigrationInv'
<1>1. /\ journal \in JournalRecord /\ journal # None /\ journal.phase = "alias_delete" /\ Bound
      /\ At("migrate", "loop") /\ SetPhase("final_manifest")
      /\ \A a \in Alias : journal.alias[a] = "deleted"
      /\ UNCHANGED <<ledger, live, stage, aliases, conf, now, run, stops, aborts>>
  BY Turning DEF SetFinalManifest
<1>2. Committed
  BY CommittedTurn, Ranks DEF SetFinalManifest
<1>3. /\ journal' \in JournalRecord /\ journal'.phase = "final_manifest"
      /\ journal'.pointer = journal.pointer /\ journal'.alias = journal.alias
  BY <1>1, PhaseSet, PhaseNames
<1>4. ledger.layout = "c2_to_single"
  BY <1>1, OldLayout, Ranks
<1>5. LedgerBound' /\ ControlBound' /\ TreesBound'
  BY <1>1, <1>2, <1>4, PhaseBound, Ranks, PhaseNames
<1>6. PointersBound' /\ AliasesBound'
  BY <1>1, <1>3, Ranks DEF Bound, PointersBound, AliasesBound
<1>7. DeadlineKept'
  BY <1>1, <1>2, Ranks DEF MigrationInv, DeadlineKept
<1>8. live' \in [View -> {Old} \cup Plan] /\ stage' \in StageTree
  BY <1>1 DEF MigrationInv, Typed, TypeOK, Bound, TreesBound
<1>9. Bound'
  BY <1>5, <1>6 DEF Bound
<1> QED
  BY <1>1, <1>2, <1>3, <1>7, <1>8, <1>9, TurnMoves

\* CompleteLayoutTransition: all views are new and no alias is left.
LEMMA CompleteLayoutTransitionSafe ==
  ASSUME MigrationInv, CompleteLayoutTransition
  PROVE  /\ MigrationInv' /\ Committed /\ Committed' /\ ledger'.control = ledger.control
         /\ \A v \in View : live[v] # Old
         /\ aliases = {} /\ ledger'.layout = "single"
<1>1. /\ journal \in JournalRecord /\ journal # None /\ journal.phase = "final_manifest" /\ Bound
      /\ run.cmd = "migrate" /\ run.at = "loop" /\ Go("completed") /\ Committed
      /\ UNCHANGED <<disk, conf, now, stops, aborts>>
  BY Turning DEF CompleteLayoutTransition, At
<1>2. /\ ledger' \in LedgerRecord /\ ledger'.layout = "single" /\ ledger'.gen = Next1
      /\ ledger'.receipt = TRUE /\ ledger'.control = ledger.control
  BY LedgerTyped DEF CompleteLayoutTransition, LedgerRecord
<1>3. /\ run' \in RunRecord /\ run'.cmd = "migrate" /\ run'.at = "completed" /\ run'.now = run.now
      /\ run'.plan = run.plan /\ run' # Idle
  BY <1>1, GoFields DEF RunStep
<1>4. Committed' /\ ledger'.gen # Base
  BY <1>1, <1>2 DEF Committed, Next1, Base
<1>5. (\A v \in View : live[v] # Old) /\ aliases = {}
  <2>1. (\A v \in View : live[v] # Old) /\ \A a \in Alias : a \notin aliases
    BY <1>1, Ranks DEF Bound, PointersBound, AliasesBound
  <2>2. aliases \subseteq Alias
    BY DEF MigrationInv, Typed, TypeOK
  <2> QED
    BY <2>1, <2>2
<1>6. Bound'
  <2>1. LedgerBound'
    BY <1>1, <1>2, Ranks DEF LedgerBound, disk
  <2>2. ControlBound'
    BY <1>1, <1>2, <1>4 DEF Bound, ControlBound, disk
  <2> QED
    BY <1>1, <2>1, <2>2 DEF Bound, PointersBound, AliasesBound, TreesBound, disk
<1>7. Typed'
  BY <1>1, <1>2, <1>3 DEF MigrationInv, Typed, TypeOK, LedgerRecord, RunRecord, disk
<1>8. Decided' /\ Finished'
  BY <1>1, <1>2, <1>3, <1>4, <1>5, <1>6 DEF Decided, Finished, disk
<1>9. DeadlineKept'
  BY <1>1, <1>2, <1>4 DEF MigrationInv, DeadlineKept, disk
<1>10. RunSound'
  BY <1>1, <1>2, <1>3, <1>6 DEF RunSound, At, In, disk
<1> QED
  BY <1>1, <1>2, <1>4, <1>5, <1>7, <1>8, <1>9, <1>10 DEF MigrationInv

\* PersistDone
LEMMA PersistDoneSafe ==
  ASSUME MigrationInv, PersistDone
  PROVE  MigrationInv'
<1>1. /\ ledger.layout = "single" /\ In("final_manifest") /\ Bound /\ run.cmd = "migrate"
      /\ Go("loop") /\ SetPhase("done")
      /\ UNCHANGED <<ledger, live, stage, aliases, conf, now, stops, aborts>>
  BY DEF PersistDone, At, MigrationInv, RunSound
<1>2. journal' \in JournalRecord /\ Bound' /\ DeadlineKept'
  BY <1>1, JournalDone
<1>3. /\ run' \in RunRecord /\ run'.cmd = "migrate" /\ run'.at = "loop" /\ run'.now = run.now
      /\ run'.plan = run.plan /\ run' # Idle
  BY <1>1, GoFields DEF RunStep
<1>4. Committed' /\ Finished /\ journal' # None
  BY <1>1, <1>2, NoneAssumption DEF MigrationInv, Finished, Committed
<1>5. Typed'
  BY <1>1, <1>2, <1>3 DEF MigrationInv, Typed, TypeOK, RunRecord
<1>6. Decided' /\ Finished'
  BY <1>1, <1>2, <1>3, <1>4 DEF Decided, Finished
<1>7. RunSound'
  BY <1>3, <1>4 DEF RunSound, At
<1> QED
  BY <1>2, <1>4, <1>5, <1>6, <1>7 DEF MigrationInv

\* RemoveStage: the last of a finished migration.
LEMMA RemoveStageSafe ==
  ASSUME MigrationInv, RemoveStage
  PROVE  MigrationInv'
<1>1. /\ ledger.layout = "single" /\ journal = None /\ run' = Idle /\ stage' = None
      /\ UNCHANGED <<ledger, journal, live, aliases, conf, now, stops, aborts>>
  BY DEF RemoveStage, Exit, MigrationInv, RunSound
<1>2. Committed' /\ Finished /\ now \in Nat
  BY <1>1 DEF MigrationInv, Finished, Committed, Typed, TypeOK
<1>3. Typed'
  BY <1>1, <1>2, IdleFields DEF MigrationInv, Typed, TypeOK
<1>4. Decided' /\ Finished' /\ DeadlineKept'
  BY <1>1, <1>2, IdleFields DEF Decided, Finished, DeadlineKept
<1>5. RunSound'
  BY <1>1, IdleFields DEF RunSound, At
<1> QED
  BY <1>2, <1>3, <1>4, <1>5 DEF MigrationInv

-----------------------------------------------------------------------------
(* Abort *)

\* A command that abandons is never past the commit.
LEMMA Abandoning ==
  ASSUME MigrationInv, run.cmd = "abandon"
  PROVE  ~Committed /\ Untouched
  BY DEF MigrationInv, Decided

\* AbandonStage: the stage may stay.
LEMMA AbandonStageSafe ==
  ASSUME MigrationInv, AbandonStage
  PROVE  MigrationInv'
<1>1. /\ run.cmd = "abandon" /\ Go("state") /\ stage' \in {None, stage}
      /\ UNCHANGED <<ledger, journal, live, aliases, conf, now, stops, aborts>>
  BY DEF AbandonStage, At
<1>2. /\ run' \in RunRecord /\ run'.cmd = "abandon" /\ run'.at = "state" /\ run'.now = run.now
      /\ run'.plan = run.plan /\ run' # Idle
  BY <1>1, GoFields DEF RunStep
<1>3. ~Committed /\ Untouched /\ now \in Nat /\ now <= now
  BY <1>1, Abandoning DEF MigrationInv, Typed, TypeOK
<1>4. Typed'
  BY <1>1, <1>2 DEF MigrationInv, Typed, TypeOK, RunRecord
<1>5. RunSound'
  BY <1>2 DEF RunSound, At
<1> QED
  BY <1>1, <1>2, <1>3, <1>4, <1>5, RunMoves DEF Untouched

\* AbandonLayoutTransition: the anchored plan goes.
LEMMA AbandonLayoutTransitionSafe ==
  ASSUME MigrationInv, AbandonLayoutTransition
  PROVE  MigrationInv' /\ ~Committed /\ ~Committed'
<1>1. run.cmd = "abandon" /\ Go("journal") /\ UNCHANGED <<disk, conf, now, stops, aborts>>
  BY DEF AbandonLayoutTransition, At
<1>2. /\ run' \in RunRecord /\ run'.cmd = "abandon" /\ run'.at = "journal" /\ run'.now = run.now
      /\ run'.plan = run.plan /\ run' # Idle
  BY <1>1, GoFields DEF RunStep
<1>3. ~Committed /\ Untouched
  BY <1>1, Abandoning
<1>4. /\ ledger' \in LedgerRecord /\ ledger'.control = None /\ ledger'.layout = ledger.layout
      /\ ledger'.gen = ledger.gen /\ ledger'.receipt = ledger.receipt
  BY LedgerTyped DEF AbandonLayoutTransition, LedgerRecord
<1>5. ~Committed'
  BY <1>4 DEF Committed
<1>6. Typed'
  BY <1>1, <1>2, <1>4 DEF MigrationInv, Typed, TypeOK, LedgerRecord, RunRecord, disk
<1>7. journal' # None => Abandonable'
  BY <1>1, <1>3, <1>4, <1>5 DEF Untouched, Abandonable, disk
<1>8. Untouched' /\ ledger'.layout # "single" /\ DeadlineKept'
  BY <1>1, <1>2, <1>3, <1>4, <1>5, <1>7 DEF Untouched, DeadlineKept, disk
<1>9. RunSound'
  BY <1>2, <1>4 DEF RunSound, At
<1> QED
  BY <1>3, <1>5, <1>6, <1>8, <1>9 DEF MigrationInv

\* AbandonJournal: nothing of the migration is left.
LEMMA AbandonJournalSafe ==
  ASSUME MigrationInv, AbandonJournal
  PROVE  MigrationInv'
<1>1. /\ run.cmd = "abandon" /\ journal' = None /\ run' = Idle
      /\ UNCHANGED <<ledger, live, stage, aliases, conf, now, stops, aborts>>
  BY DEF AbandonJournal, At, Exit
<1>2. ~Committed /\ Untouched /\ now \in Nat
  BY <1>1, Abandoning DEF MigrationInv, Typed, TypeOK
<1>3. ~Committed'
  BY <1>1, <1>2 DEF Committed
<1>4. Typed'
  BY <1>1, <1>2, IdleFields DEF MigrationInv, Typed, TypeOK
<1>5. Untouched' /\ ledger'.layout # "single" /\ DeadlineKept'
  BY <1>1, <1>2, <1>3, IdleFields DEF Untouched, DeadlineKept
<1>6. RunSound'
  BY <1>1, IdleFields DEF RunSound, At
<1> QED
  BY <1>3, <1>4, <1>5, <1>6 DEF MigrationInv

-----------------------------------------------------------------------------
(* Every step, and what the invariant gives *)

\* Before the first `repo migrate`
LEMMA InitSafe ==
  ASSUME Init
  PROVE  MigrationInv
<1>1. PICK recorded \in BOOLEAN :
        ledger = [layout |-> "c2_to_single", gen |-> Base, recorded |-> recorded,
                  receipt |-> FALSE, control |-> None]
  BY DEF Init
<1>2. PICK legacy \in BOOLEAN : conf = [legacy |-> legacy, signer |-> TRUE]
  BY DEF Init
<1>3. ledger \in LedgerRecord /\ ledger.control = None /\ ledger.layout = "c2_to_single"
      /\ ledger.gen = Base /\ ledger.receipt = FALSE
  BY <1>1 DEF LedgerRecord
<1>4. ~Committed
  BY <1>3 DEF Committed
<1>5. now = 1 /\ 1 \in 1 .. MaxTime /\ 0 \in 0 .. MaxStops /\ 0 \in 0 .. MaxAborts
  BY MigrationAssumption DEF Init
<1>6. run = Idle /\ run.cmd = "none" /\ run.now = 0 /\ run.plan = None /\ run \in RunRecord
  BY IdleFields DEF Init
<1>7. Typed
  BY <1>2, <1>3, <1>5, <1>6 DEF Init, Typed, TypeOK, LedgerRecord
<1>8. Untouched /\ DeadlineKept
  BY <1>3, <1>4, <1>5, <1>6 DEF Init, Untouched, DeadlineKept
<1>9. RunSound
  BY <1>6 DEF RunSound, At
<1> QED
  BY <1>3, <1>4, <1>7, <1>8, <1>9 DEF MigrationInv

\* A step that changes nothing
LEMMA StutterSafe ==
  ASSUME MigrationInv, UNCHANGED vars
  PROVE  MigrationInv'
<1>1. conf' \in [legacy : BOOLEAN, signer : BOOLEAN]
  BY DEF MigrationInv, Typed, TypeOK, vars
<1> QED
  BY <1>1, ConfigSafe DEF vars, disk

\* Every step keeps the invariant.
LEMMA NextSafe ==
  ASSUME MigrationInv, [Next]_vars
  PROVE  MigrationInv'
<1>1. ASSUME NEW v \in View, RenderView(v) \/ ExchangeView(v) \/ SetPointer(v)
      PROVE  MigrationInv'
  BY <1>1, RenderViewSafe, ExchangeViewSafe, SetPointerSafe
<1>2. ASSUME NEW a \in Alias, RemoveAlias(a) \/ SetAliasDeleted(a)
      PROVE  MigrationInv'
  BY <1>2, RemoveAliasSafe, SetAliasDeletedSafe
<1>3. CASE Step
  BY <1>1, <1>2, <1>3, RepairDoneSafe, ClearTerminalSafe, EndsSafe, ConfigChanges, ResumeSafe,
     PreserveStageSafe, MakeStageSafe, AnchorLayoutTransitionPlanSafe, PersistPlannedSafe,
     SetStagedSafe, CommitLayoutTransitionPlanSafe, CommitIntentSafe, SetGraceSafe,
     SetAliasDeleteSafe, SetFinalManifestSafe, CompleteLayoutTransitionSafe, PersistDoneSafe,
     ClearTransitionJournalSafe, RemoveStageSafe, AbandonStageSafe, AbandonLayoutTransitionSafe,
     AbandonJournalSafe DEF Step
<1> QED
  BY <1>3, StartMigrateSafe, StartAbandonSafe, StopSafe, TickSafe, ConfigChanges,
     BuildGenerationSafe, StutterSafe DEF Next

\* MigrationInv is inductive.
THEOREM Invariance == Spec => []MigrationInv
<1>1. Init => MigrationInv
  BY InitSafe
<1>2. MigrationInv /\ [Next]_vars => MigrationInv'
  BY NextSafe
<1> QED
  BY <1>1, <1>2, PTL DEF Spec

\* After any stop a view serves whole metadata, and the next command is admitted:
\* a committed migration is resumed, one that is not committed can be aborted.
THEOREM MigrationSafeHolds == Spec => []MigrationSafe
<1>1. ASSUME MigrationInv PROVE MigrationSafe
  <2>1. TypeOK
    BY <1>1 DEF MigrationInv, Typed
  <2>2. ResumeAdmitted
    BY <1>1 DEF MigrationInv, Untouched, Decided, ResumeAdmitted
  <2> QED
    BY <2>1, <2>2 DEF MigrationSafe
<1> QED
  BY <1>1, Invariance, PTL

-----------------------------------------------------------------------------
(* The contract with readers *)

\* A step that no reader can tell from none.
Silent == UNCHANGED <<CommittedPlan, live, aliases, Single, now>>

\* Either the control stays, or there is no commit before or after.
LEMMA Unnoticed ==
  ASSUME UNCHANGED <<live, aliases, now>>, ledger'.layout = ledger.layout,
         ledger'.control = ledger.control \/ (~Committed /\ ~Committed')
  PROVE  Silent
<1>1. CommittedPlan' = CommittedPlan
  BY DEF CommittedPlan, Committed
<1>2. Single' = Single
  BY DEF Single
<1> QED
  BY <1>1, <1>2 DEF Silent

\* Steps that leave ledger, tree and clock alone
LEMMA PrivateSilent ==
  ASSUME \/ RepairDone \/ ClearTerminal \/ AlreadyDone \/ WriteConfig \/ Resume
         \/ PreserveStage \/ PersistPlanned
         \/ SetStaged \/ SetCommitIntent \/ SetRollForward
         \/ SetGrace \/ AwaitGrace \/ SetAliasDelete \/ SetFinalManifest
         \/ PersistDone \/ ClearTransitionJournal \/ RemoveStage
         \/ Refuse \/ AbandonStage \/ AbandonJournal
         \/ (\E v \in View : RenderView(v) \/ SetPointer(v))
         \/ (\E a \in Alias : SetAliasDeleted(a))
         \/ (\E grace \in {Grace, LongGrace} : StartMigrate(grace))
         \/ StartAbandon \/ Stop \/ ChangeSigner \/ UNCHANGED vars
  PROVE  Silent
<1>1. UNCHANGED <<ledger, live, aliases, now>>
  BY DEF RepairDone, ClearTerminal, AlreadyDone, WriteConfig, Resume, PreserveStage, PersistPlanned,
         SetStaged, SetCommitIntent, SetRollForward, SetGrace, AwaitGrace, SetAliasDelete,
         SetFinalManifest, PersistDone, ClearTransitionJournal, RemoveStage, Refuse, AbandonStage,
         AbandonJournal, RenderView, SetPointer, SetAliasDeleted, StartMigrate, StartAbandon, Stop,
         ChangeSigner, vars, disk
<1> QED
  BY <1>1, Unnoticed

\* Steps on the ledger that readers do not see
LEMMA LedgerSilent ==
  ASSUME MigrationInv,
         MakeStage \/ AnchorLayoutTransitionPlan \/ AbandonLayoutTransition \/ BuildGeneration
  PROVE  Silent
<1>1. CASE MakeStage \/ BuildGeneration
  <2>1. ledger'.layout = ledger.layout /\ ledger'.control = ledger.control
    BY <1>1, LedgerTyped DEF MakeStage, BuildGeneration, LedgerRecord
  <2> QED
    BY <1>1, <2>1, Unnoticed DEF MakeStage, BuildGeneration, disk
<1>2. CASE AnchorLayoutTransitionPlan
  <2>1. ~Committed
    BY <1>2 DEF AnchorLayoutTransitionPlan, MigrationInv, RunSound, At
  <2>2. ledger'.layout = ledger.layout /\ ledger'.control = Control(run.plan)
    BY <1>2, LedgerTyped DEF AnchorLayoutTransitionPlan, LedgerRecord
  <2>3. ~Committed'
    BY <2>2 DEF Committed, Control
  <2> QED
    BY <1>2, <2>1, <2>2, <2>3, Unnoticed DEF AnchorLayoutTransitionPlan, disk
<1>3. CASE AbandonLayoutTransition
  <2>1. ledger'.layout = ledger.layout
    BY <1>3, LedgerTyped DEF AbandonLayoutTransition, LedgerRecord
  <2> QED
    BY <1>3, <2>1, AbandonLayoutTransitionSafe, Unnoticed DEF AbandonLayoutTransition, disk
<1> QED
  BY <1>1, <1>2, <1>3

\* The commit
LEMMA CommitContract ==
  ASSUME MigrationInv, CommitLayoutTransitionPlan
  PROVE  Contract!Commit
<1>1. CommittedPlan = None /\ CommittedPlan' # None
  BY Commits DEF CommittedPlan
<1>2. UNCHANGED <<live, aliases, Single, now>>
  BY Commits DEF CommitLayoutTransitionPlan, Single, disk
<1> QED
  BY <1>1, <1>2 DEF Contract!Commit

\* A view is exchanged.
LEMMA ExchangeContract ==
  ASSUME MigrationInv, NEW v \in View, ExchangeView(v)
  PROVE  Contract!Switch(v)
<1>1. Committed /\ live' = [live EXCEPT ![v] = ledger.control.plan]
  BY ExchangeViewSafe
<1>2. UNCHANGED <<ledger, aliases, now>> /\ live[v] = 0
  BY DEF ExchangeView, Old
<1>3. CommittedPlan = ledger.control /\ CommittedPlan # None /\ UNCHANGED <<CommittedPlan, Single>>
  BY <1>1, <1>2 DEF CommittedPlan, Committed, Single
<1> QED
  BY <1>1, <1>2, <1>3 DEF Contract!Switch

\* An alias is deleted.
LEMMA RemoveContract ==
  ASSUME MigrationInv, NEW a \in Alias, RemoveAlias(a)
  PROVE  Contract!Delete(a)
<1>1. /\ Committed /\ aliases' = aliases \ {a} /\ \A v \in View : live[v] # 0
      /\ now >= ledger.control.notBefore
  BY RemoveAliasSafe DEF Old
<1>2. UNCHANGED <<ledger, live, now>>
  BY DEF RemoveAlias
<1>3. CommittedPlan = ledger.control /\ UNCHANGED <<CommittedPlan, Single>>
  BY <1>1, <1>2 DEF CommittedPlan, Committed, Single
<1> QED
  BY <1>1, <1>2, <1>3 DEF Contract!Delete, Contract!Switched

\* The layout becomes single.
LEMMA CompleteContract ==
  ASSUME MigrationInv, CompleteLayoutTransition
  PROVE  Contract!Finish
<1>1. /\ \A v \in View : live[v] # 0
      /\ aliases = {} /\ Single' = TRUE
      /\ Committed /\ Committed' /\ ledger'.control = ledger.control
  BY CompleteLayoutTransitionSafe DEF Old, Single
<1>2. UNCHANGED <<CommittedPlan, live, aliases, now>>
  BY <1>1 DEF CompleteLayoutTransition, CommittedPlan, disk
<1> QED
  BY <1>1, <1>2 DEF Contract!Finish, Contract!Switched

\* Time passes.
LEMMA TickContract ==
  ASSUME Tick
  PROVE  Contract!Pass
<1>1. now' = now + 1 /\ UNCHANGED <<ledger, live, aliases>>
  BY DEF Tick, disk
<1>2. UNCHANGED <<CommittedPlan, Single>>
  BY <1>1 DEF CommittedPlan, Committed, Single
<1> QED
  BY <1>1, <1>2 DEF Contract!Pass

\* Readers see no view change before one plan is committed, every view goes once
\* from its old metadata to that plan's, and no alias goes before its deadline.
THEOREM MigrationContractHolds == Spec => ContractKept
<1>1. Init => Contract!Init
  <2> SUFFICES ASSUME Init PROVE Contract!Init
    OBVIOUS
  <2>1. ledger.control = None /\ ledger.layout = "c2_to_single"
    BY DEF Init
  <2>2. CommittedPlan = None /\ Single = FALSE
    BY <2>1 DEF CommittedPlan, Committed, Single
  <2> QED
    BY <2>2 DEF Init, Contract!Init, Old
<1>2. ASSUME MigrationInv, [Next]_vars
      PROVE  [Contract!Next]_<<CommittedPlan, live, aliases, Single, now>>
  <2>1. \/ Silent \/ Contract!Commit \/ Contract!Finish \/ Contract!Pass
        \/ (\E v \in View : Contract!Switch(v))
        \/ (\E a \in Alias : Contract!Delete(a))
    <3>1. CASE Step
      BY <1>2, <3>1, PrivateSilent, LedgerSilent, CommitContract, ExchangeContract, RemoveContract,
         CompleteContract DEF Step
    <3> QED
      BY <1>2, <3>1, PrivateSilent, LedgerSilent, TickContract DEF Next
  <2> QED
    BY <2>1 DEF Silent, Contract!Next
<1> QED
  BY <1>1, <1>2, Invariance, PTL DEF Spec, ContractKept, Contract!Spec
=============================================================================
