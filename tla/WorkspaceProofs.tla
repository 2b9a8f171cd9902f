--------------------------- MODULE WorkspaceProofs ---------------------------
(***************************************************************************)
(* Safety of WorkspaceLifecycle for every number of processes and every    *)
(* set of repositories.  WorkspaceInv is the inductive invariant: the step *)
(* a process is at tells which locks it holds; a journal exists only under *)
(* the exclusive lock or between commands; and kind and decision of the    *)
(* journal tell which files of its repository are there.                   *)
(***************************************************************************)
EXTENDS WorkspaceLifecycle, TLAPS

\* The steps of a process by the workspace lock it holds.
Free == {"idle", "boot", "lockfile", "wantEx", "wantSh", "dists"}

Deciding == {"rmlock", "config", "applied", "shell", "move", "purge", "clear"}

Settling == {"command", "ready", "initCheck", "initLoop"}

InRepository == {"open", "wantRepo", "inside"}

Step == Free \union Deciding \union Settling \union InRepository \union {"layout", "inspect", "recover"}

HeldRecord == [ws : {"none", "sh", "ex"}, repo : Repo \union {None}, ino : 0 .. MaxOps + 1]

ProcRecord ==
  [at : Step, cmd : {"none", "init", "new", "rm", "write", "dists"}, repo : Repo \union {None},
   recovering : BOOLEAN, todo : SUBSET Repo]

FilesTyped ==
  /\ sow \subseteq {"dir", "workspace.lock", "workspace-ops", "repo-locks"}
  /\ config \in [exists : BOOLEAN, repos : SUBSET Repo]
  /\ journal \in {None} \union JournalRecord
  /\ parts \in [Repo -> [Part -> 0 .. MaxOps + 1]]
  /\ moved \subseteq (1 .. MaxOps) \X ({"dir"} \union DOMAIN Inside)
  /\ nextId \in 1 .. MaxOps + 1

Typed ==
  /\ FilesTyped
  /\ held \in [Proc -> HeldRecord]
  /\ proc \in [Proc -> ProcRecord]

\* The exclusive workspace lock excludes every other, and the lock of a
\* repository is held by one process.
Exclusion ==
  /\ \A p, q \in Proc : p # q /\ held[p].ws = "ex" => held[q].ws = "none"
  /\ \A p, q \in Proc : p # q /\ held[p].repo # None => held[q].repo # held[p].repo \/ held[q].ino # held[p].ino

\* The repository is there, made by one operation.
Whole(r) == \A q \in Part : parts[r][q] = parts[r].db /\ parts[r][q] # NoPart

\* It is not, but for a directory someone made under its name.
Bare(r) == \A q \in Part : parts[r][q] \in {NoPart, Foreign}

\* The locks h of a process with state s.
Locked(h, s) ==
  /\ s.at \in Free => h = Unlocked
  /\ s.at = "layout" => h.ws # "sh" /\ "workspace.lock" \in sow
  /\ s.at = "layout" /\ h.ws = "none" => h = Unlocked
  /\ s.at = "inspect" => h.ws = "sh"
  /\ s.at \in Deciding \union Settling \union {"recover"} => h.ws = "ex"
  /\ s.at \in InRepository => h.ws # "none" /\ (s.cmd = "rm" => h.ws = "ex")
  /\ s.at \in {"layout", "inspect", "recover", "command", "open", "wantRepo"} => h.repo = None
  /\ h.ws = "ex" => "workspace.lock" \in sow

\* What its step tells of a process with locks h and state s.
Placed(h, s) ==
  /\ s.at = "recover" \/ (s.at = "layout" /\ h.ws = "ex") => s.recovering
  /\ s.at \in {"wantSh", "inspect"} => s.cmd = "write"
  /\ s.at = "ready" => s.cmd = "rm"
  /\ s.at \in InRepository \union {"ready"} => s.repo \in Repo
  /\ s.cmd \in {"new", "rm", "write"} => s.repo \in Repo
  /\ s.cmd = "dists" /\ s.at # "dists" => s.repo \in Repo

\* Init may make the shells that sow.yml still lacks, but for one under way.
Initialisable(other) == \A r \in config.repos \ {other} : Present(r) = {} \/ Whole(r)

\* What sow.yml says of the journal's repository has been carried out.
CarriedOut ==
  /\ moved = {}
  /\ journal.repo # None =>
       IF journal.repo \in config.repos THEN Whole(journal.repo) ELSE Present(journal.repo) = {}

\* What a process that works without deciding anything may count on ...
Working(h, s) ==
  /\ s.at \in Settling \union InRepository => journal = None
  /\ s.at \in {"wantRepo", "inside", "ready"} => parts[s.repo].lock # NoPart /\ h.ino = parts[s.repo].lock
  /\ s.at \in {"inside", "ready"} => h.repo = s.repo
  /\ s.at \in {"wantRepo", "ready"} /\ s.cmd = "rm" => s.repo \in config.repos
  /\ s.at = "initLoop" => Initialisable(None)

\* ... and one that carries out a journal.
Carrying(s) ==
  /\ s.at \in Deciding => journal # None
  /\ s.at = "config" => Undecided
  /\ s.at \in {"applied", "shell", "rmlock", "move", "purge"} => Decided
  /\ s.at = "applied" => journal.kind # "repo.init"
  /\ s.at = "shell" => journal.kind \in {"repo.new", "repo.init"}
  /\ s.at \in {"rmlock", "move", "purge"} => journal.kind = "repo.rm"
  /\ s.at = "purge" => Present(journal.repo) = {}
  /\ s.at \in {"shell", "clear"} /\ ~s.recovering /\ journal.kind = "repo.init" => Initialisable(journal.repo)
  /\ s.at = "clear" => CarriedOut

Sound(h, s) == Locked(h, s) /\ Placed(h, s) /\ Working(h, s) /\ Carrying(s)

\* Paths are moved whole, and recorded as long as the removal is under way.
Removing(r) ==
  /\ \A g \in DOMAIN Inside : \A q \in Inside[g] : parts[r][q] = NoPart <=> parts[r][g] = NoPart
  /\ \A g \in DOMAIN Inside : <<journal.id, g>> \in moved => parts[r][g] = NoPart
  /\ Present(r) # {} =>
       \A g \in DOMAIN Inside : parts[r][g] = NoPart => <<journal.id, g>> \in moved

JournalSound ==
  journal # None =>
    LET r == journal.repo
    IN /\ Undecided \/ Decided
       /\ journal.kind = "workspace.init" => r = None /\ journal.new = {}
       /\ journal.kind # "workspace.init" => r \in Repo
       /\ journal.kind = "repo.new" => r \notin journal.old /\ journal.new = journal.old \union {r}
       /\ journal.kind = "repo.rm" => r \in journal.old /\ journal.new = journal.old \ {r}
       /\ journal.kind = "repo.init" => r \in journal.old /\ journal.new = journal.old
       /\ Undecided /\ journal.kind = "repo.new" => Present(r) = {}
       /\ Undecided /\ journal.kind = "repo.rm" => Whole(r)
       /\ Decided /\ journal.kind \in {"repo.new", "repo.init"} =>
            \A q \in Part : parts[r][q] \in {NoPart, journal.id}
       /\ Decided /\ journal.kind = "repo.rm" => Removing(r)

FilesSound ==
  /\ \A r \in Repo : (journal = None \/ journal.repo # r) => Bare(r) \/ Whole(r)
  /\ \A r \in Repo : \A q \in Part : parts[r][q] = Foreign => q = "repository"
  /\ moved # {} => journal # None /\ journal.kind = "repo.rm" /\ Decided
  /\ ~config.exists => config.repos = {}
  /\ LockNeverLost

WorkspaceInv ==
  /\ Typed
  /\ Exclusion
  /\ FilesSound
  /\ JournalSound
  /\ \A p \in Proc : Sound(held[p], proc[p])
-----------------------------------------------------------------------------
(* The names of the files *)

\* The parts of a repository, and the paths that are moved with what is in them.
LEMMA Names ==
  /\ Part = {"repository", "pool", "private", "stage", "lock", "db"}
  /\ DOMAIN Inside = {"repository", "private", "lock", "db"}
  /\ Inside["repository"] = {"repository", "pool"}
  /\ Inside["private"] = {"private", "stage"}
  /\ Inside["lock"] = {"lock"}
  /\ Inside["db"] = {"db"}
<1>1. Part = {"repository", "pool", "private", "stage", "lock", "db"}
  <2>1. 1 .. 6 = {1, 2, 3, 4, 5, 6}
    OBVIOUS
  <2> QED
    BY <2>1 DEF Part, Shell
<1> QED
  BY <1>1 DEF Inside

\* ensureRepositoryShell makes the first missing part.
LEMMA FirstMissing ==
  ASSUME NEW missing, missing \subseteq 1 .. 6, missing # {}
  PROVE  (CHOOSE k \in missing : \A l \in missing : k <= l) \in missing
<1>1. \E k \in missing : \A l \in missing : k <= l
  <2>1. CASE 1 \in missing  BY <2>1
  <2>2. CASE 1 \notin missing /\ 2 \in missing  BY <2>2
  <2>3. CASE 1 \notin missing /\ 2 \notin missing /\ 3 \in missing  BY <2>3
  <2>4. CASE 1 \notin missing /\ 2 \notin missing /\ 3 \notin missing /\ 4 \in missing  BY <2>4
  <2>5. CASE 1 \notin missing /\ 2 \notin missing /\ 3 \notin missing /\ 4 \notin missing /\ 5 \in missing
    BY <2>5
  <2>6. CASE missing = {6}  BY <2>6
  <2>7. 1 .. 6 = {1, 2, 3, 4, 5, 6}
    OBVIOUS
  <2> QED
    BY <2>1, <2>2, <2>3, <2>4, <2>5, <2>6, <2>7
<1> QED
  BY <1>1

\* The order in which paths are moved has every path.
LEMMA Ordered ==
  ASSUME NEW r
  PROVE  /\ \A k \in 1 .. 4 : RemovalOrder(r)[k] \in DOMAIN Inside
         /\ \A g \in DOMAIN Inside : \E k \in 1 .. 4 : RemovalOrder(r)[k] = g
<1>1. 1 .. 4 = {1, 2, 3, 4}
  OBVIOUS
<1>2. CASE r \in LateName
  BY <1>1, <1>2, Names DEF RemovalOrder
<1>3. CASE r \notin LateName
  BY <1>1, <1>3, Names DEF RemovalOrder
<1> QED
  BY <1>2, <1>3

\* The locks and the state of a process are records, also with nothing to do.
LEMMA Rest == Unlocked \in HeldRecord /\ Idle \in ProcRecord
BY WorkspaceAssumption DEF Unlocked, Idle, HeldRecord, ProcRecord, Step, Free

\* A process at rest may count on anything.
LEMMA RestSound == Sound(Unlocked, Idle)
BY Rest DEF Sound, Locked, Placed, Working, Carrying, Unlocked, Idle, Free, Deciding, Settling, InRepository

-----------------------------------------------------------------------------
(* Steps of one process *)

\* What a step of p to locks h and state s has to show.
LEMMA StepOf ==
  ASSUME WorkspaceInv, NEW p \in Proc, NEW h \in HeldRecord, NEW s \in ProcRecord,
         held' = [held EXCEPT ![p] = h], proc' = [proc EXCEPT ![p] = s],
         h.ws = "ex" => held[p].ws = "ex" \/ WorkspaceFree(p, "ex"),
         h.ws = "sh" => held[p].ws = "sh" \/ WorkspaceFree(p, "sh"),
         h.repo # None => InodeFree(p, h.repo, h.ino) \/ (h.repo = held[p].repo /\ h.ino = held[p].ino),
         FilesTyped', FilesSound', JournalSound', Sound(h, s)',
         \A q \in Proc \ {p} : Sound(held[q], proc[q])'
  PROVE  WorkspaceInv'
<1> USE DEF WorkspaceInv
<1>1. Typed'
  BY DEF Typed
<1>2. /\ held'[p] = h /\ proc'[p] = s
      /\ \A q \in Proc \ {p} : held'[q] = held[q] /\ proc'[q] = proc[q]
  BY DEF Typed
<1>3. Exclusion'
  <2>1. \A q \in Proc : held[q].ws \in {"none", "sh", "ex"} /\ h.ws \in {"none", "sh", "ex"}
    BY DEF Typed, HeldRecord
  <2>2. \A a, b \in Proc : a # b /\ held'[a].ws = "ex" => held'[b].ws = "none"
    <3> SUFFICES ASSUME NEW a \in Proc, NEW b \in Proc, a # b, held'[a].ws = "ex"  PROVE held'[b].ws = "none"
      OBVIOUS
    <3>1. CASE a = p
      BY <3>1, <1>2, <2>1 DEF Exclusion, WorkspaceFree
    <3>2. CASE b = p
      BY <3>2, <1>2, <2>1 DEF Exclusion, WorkspaceFree
    <3>3. CASE a # p /\ b # p
      BY <3>3, <1>2 DEF Exclusion
    <3> QED
      BY <3>1, <3>2, <3>3
  <2>3. \A a, b \in Proc : a # b /\ held'[a].repo # None =>
          held'[b].repo # held'[a].repo \/ held'[b].ino # held'[a].ino
    <3> SUFFICES ASSUME NEW a \in Proc, NEW b \in Proc, a # b, held'[a].repo # None
                 PROVE  held'[b].repo # held'[a].repo \/ held'[b].ino # held'[a].ino
      OBVIOUS
    <3>1. CASE a = p
      BY <3>1, <1>2 DEF Exclusion, InodeFree
    <3>2. CASE b = p
      BY <3>2, <1>2 DEF Exclusion, InodeFree
    <3>3. CASE a # p /\ b # p
      BY <3>3, <1>2 DEF Exclusion
    <3> QED
      BY <3>1, <3>2, <3>3
  <2> QED
    BY <2>2, <2>3 DEF Exclusion
<1>4. ASSUME NEW q \in Proc  PROVE Sound(held[q], proc[q])'
  BY <1>2
<1> QED
  BY <1>1, <1>3, <1>4

\* Nothing but the locks and the state of p changes.
LEMMA LocalStep ==
  ASSUME WorkspaceInv, NEW p \in Proc, NEW h \in HeldRecord, NEW s \in ProcRecord,
         held' = [held EXCEPT ![p] = h], proc' = [proc EXCEPT ![p] = s],
         h.ws = "ex" => held[p].ws = "ex" \/ WorkspaceFree(p, "ex"),
         h.ws = "sh" => held[p].ws = "sh" \/ WorkspaceFree(p, "sh"),
         h.repo # None => InodeFree(p, h.repo, h.ino) \/ (h.repo = held[p].repo /\ h.ino = held[p].ino),
         UNCHANGED files, Sound(h, s)
  PROVE  WorkspaceInv'
<1>1. FilesTyped' /\ FilesSound' /\ JournalSound'
  BY DEF files, WorkspaceInv, Typed, FilesTyped, FilesSound, JournalSound, Undecided, Decided, Present, Whole, Bare,
         Removing, LockNeverLost, StateEntries
<1>2. ASSUME NEW a \in HeldRecord, NEW b \in ProcRecord, Sound(a, b)  PROVE Sound(a, b)'
  BY <1>2 DEF files, Sound, Locked, Placed, Working, Carrying, Initialisable, CarriedOut, Undecided, Decided, Present,
              Whole
<1>3. ASSUME NEW q \in Proc \ {p}  PROVE Sound(held[q], proc[q])'
  <2>1. held[q] \in HeldRecord /\ proc[q] \in ProcRecord /\ held'[q] = held[q] /\ proc'[q] = proc[q]
    BY DEF WorkspaceInv, Typed
  <2>2. Sound(held[q], proc[q])
    BY DEF WorkspaceInv
  <2> QED
    BY <2>1, <2>2, <1>2 DEF files, Sound, Locked, Placed, Working, Carrying, Initialisable, CarriedOut, Undecided,
                            Decided, Present, Whole
<1> QED
  BY <1>1, <1>2, <1>3, StepOf

\* A process that holds the workspace exclusively changes files.
LEMMA ExclusiveStep ==
  ASSUME WorkspaceInv, NEW p \in Proc, NEW h \in HeldRecord, NEW s \in ProcRecord,
         held' = [held EXCEPT ![p] = h], proc' = [proc EXCEPT ![p] = s],
         held[p].ws = "ex", h.ws # "sh",
         h.repo # None => h.repo = held[p].repo /\ h.ino = held[p].ino,
         UNCHANGED sow, FilesTyped', FilesSound', JournalSound', Sound(h, s)'
  PROVE  WorkspaceInv'
<1>1. ASSUME NEW q \in Proc \ {p}  PROVE Sound(held[q], proc[q])'
  <2>1. held[q] \in HeldRecord /\ proc[q] \in ProcRecord /\ held'[q] = held[q] /\ proc'[q] = proc[q]
    BY DEF WorkspaceInv, Typed
  <2>2. Sound(held[q], proc[q]) /\ held[q].ws = "none"
    BY DEF WorkspaceInv, Exclusion
  <2>3. proc[q].at \in Free \union {"layout"}
    BY <2>1, <2>2 DEF ProcRecord, Step, Sound, Locked
  <2>4. Locked(held[q], proc[q])' /\ Placed(held[q], proc[q])'
    BY <2>1, <2>2 DEF Sound, Locked, Placed
  <2>5. Working(held[q], proc[q])' /\ Carrying(proc[q])'
    BY <2>1, <2>3 DEF Working, Carrying, Free, Settling, InRepository, Deciding
  <2> QED
    BY <2>4, <2>5 DEF Sound
<1> QED
  BY <1>1, StepOf

\* A process adds entries to .sow.
LEMMA GrowingStep ==
  ASSUME WorkspaceInv, NEW p \in Proc, NEW s \in ProcRecord,
         proc' = [proc EXCEPT ![p] = s], UNCHANGED <<config, journal, parts, moved, nextId, held>>,
         sow \subseteq sow', sow' \subseteq {"dir", "workspace.lock", "workspace-ops", "repo-locks"},
         LockNeverLost', Sound(held[p], s)'
  PROVE  WorkspaceInv'
<1>1. FilesTyped' /\ FilesSound' /\ JournalSound'
  BY DEF WorkspaceInv, Typed, FilesTyped, FilesSound, JournalSound, Undecided, Decided, Present, Whole, Bare, Removing
<1>2. ASSUME NEW q \in Proc \ {p}  PROVE Sound(held[q], proc[q])'
  <2>1. held'[q] = held[q] /\ proc'[q] = proc[q]
    BY DEF WorkspaceInv, Typed
  <2>2. Sound(held[q], proc[q])
    BY DEF WorkspaceInv
  <2> QED
    BY <2>1, <2>2 DEF Sound, Locked, Placed, Working, Carrying, Initialisable, CarriedOut, Undecided, Decided, Present,
                      Whole
<1>3. PICK h \in HeldRecord : h = held[p]
  BY DEF WorkspaceInv, Typed
<1>4. held' = [held EXCEPT ![p] = h]
  BY <1>3 DEF WorkspaceInv, Typed
<1>5. Sound(h, s)'
  BY <1>3 DEF Sound, Locked, Placed, Working
<1> QED
  BY <1>1, <1>2, <1>3, <1>4, <1>5, StepOf
-----------------------------------------------------------------------------
(* Commands begin, lock and end *)

\* What the invariant says of the process that takes the step.
LEMMA Mine ==
  ASSUME WorkspaceInv, NEW p \in Proc
  PROVE  /\ held[p] \in HeldRecord /\ proc[p] \in ProcRecord
         /\ Locked(held[p], proc[p]) /\ Placed(held[p], proc[p])
         /\ Working(held[p], proc[p]) /\ Carrying(proc[p])
BY DEF WorkspaceInv, Typed, Sound

\* A command ends, whatever it was at.
LEMMA FinishStep ==
  ASSUME WorkspaceInv, NEW p \in Proc, Finish(p), UNCHANGED files
  PROVE  WorkspaceInv'
<1>1. Unlocked.ws = "none" /\ Unlocked.repo = None
  BY DEF Unlocked
<1> QED
  BY <1>1, Rest, RestSound, LocalStep DEF Finish

\* A command begins.
LEMMA BeginStep ==
  ASSUME WorkspaceInv, NEW p \in Proc, BeginAny(p)
  PROVE  WorkspaceInv'
<1>1. PICK cmd \in {"init", "new", "rm", "write"}, r \in Repo : Begin(p, cmd, r)
  BY DEF BeginAny
<1> DEFINE s == [Idle EXCEPT
       !.cmd = cmd, !.repo = IF cmd = "init" THEN None ELSE r,
       !.at = CASE cmd = "init" -> "boot" [] cmd = "write" -> "wantSh" [] OTHER -> "wantEx"]
<1>2. /\ s.cmd = cmd /\ (cmd # "init" => s.repo = r)
      /\ s.at \in {"boot", "wantSh", "wantEx"} /\ (s.at = "wantSh" => cmd = "write")
  BY DEF Idle
<1>3. s \in ProcRecord
  BY DEF Idle, ProcRecord, Step, Free
<1>4. held[p] = Unlocked
  BY Mine, <1>1 DEF Begin, At, Locked, Free
<1>5. Sound(Unlocked, s)
  <2> HIDE DEF s
  <2>1. Locked(Unlocked, s)
    BY <1>2 DEF Locked, Unlocked, Free, Deciding, Settling, InRepository
  <2>2. Placed(Unlocked, s)
    BY <1>2 DEF Placed, InRepository
  <2>3. Working(Unlocked, s) /\ Carrying(s)
    BY <1>2 DEF Working, Carrying, Deciding, Settling, InRepository
  <2> QED
    BY <2>1, <2>2, <2>3 DEF Sound
<1>6. proc' = [proc EXCEPT ![p] = s] /\ UNCHANGED <<files, held>>
  BY <1>1 DEF Begin
<1>7. held' = [held EXCEPT ![p] = Unlocked]
  BY <1>4, <1>6 DEF WorkspaceInv, Typed
<1>8. Unlocked.ws = "none" /\ Unlocked.repo = None
  BY DEF Unlocked
<1> HIDE DEF s
<1> QED
  BY <1>3, <1>5, <1>6, <1>7, <1>8, Rest, LocalStep

\* Only the step of a process changes, and its locks perhaps.
LEMMA Gone ==
  ASSUME WorkspaceInv, NEW p \in Proc, NEW step \in Step
  PROVE  /\ [proc[p] EXCEPT !.at = step] \in ProcRecord
         /\ [proc EXCEPT ![p].at = step] = [proc EXCEPT ![p] = [proc[p] EXCEPT !.at = step]]
         /\ [proc[p] EXCEPT !.at = step].at = step
         /\ [proc[p] EXCEPT !.at = step].cmd = proc[p].cmd
         /\ [proc[p] EXCEPT !.at = step].repo = proc[p].repo
         /\ [proc[p] EXCEPT !.at = step].recovering = proc[p].recovering
         /\ [held EXCEPT ![p] = held[p]] = held
BY DEF WorkspaceInv, Typed, ProcRecord

\* p goes on to another step without touching files or locks.
LEMMA GoStep ==
  ASSUME WorkspaceInv, NEW p \in Proc, NEW step \in Step, Go(p, step), UNCHANGED <<files, held>>,
         Sound(held[p], [proc[p] EXCEPT !.at = step])
  PROVE  WorkspaceInv'
<1>1. PICK h \in HeldRecord : h = held[p]
  BY Mine
<1>2. PICK s \in ProcRecord : s = [proc[p] EXCEPT !.at = step]
  BY Gone
<1>3. held' = [held EXCEPT ![p] = h] /\ proc' = [proc EXCEPT ![p] = s]
  BY <1>1, <1>2, Gone DEF Go
<1>4. Sound(h, s) /\ h.ws = held[p].ws /\ h.repo = held[p].repo /\ h.ino = held[p].ino
  BY <1>1, <1>2
<1> QED
  BY <1>3, <1>4, LocalStep

\* p unlocks everything and goes on to another step that needs no lock.
LEMMA ReleaseStep ==
  ASSUME WorkspaceInv, NEW p \in Proc, NEW s \in ProcRecord, held' = [held EXCEPT ![p] = Unlocked],
         proc' = [proc EXCEPT ![p] = s], UNCHANGED files, s.at \in Free, Placed(Unlocked, s)
  PROVE  WorkspaceInv'
<1>1. Unlocked.ws = "none" /\ Unlocked.repo = None
  BY DEF Unlocked
<1>2. Locked(Unlocked, s)
  BY <1>1 DEF Locked, Free, Deciding, Settling, InRepository
<1>3. Working(Unlocked, s) /\ Carrying(s)
  BY DEF Working, Carrying, Free, Deciding, Settling, InRepository
<1> QED
  BY <1>1, <1>2, <1>3, Rest, LocalStep DEF Sound

\* .sow and its entries.
LEMMA LayoutStep ==
  ASSUME WorkspaceInv, NEW p \in Proc,
         Boot(p) \/ EnsureWorkspaceLock(p) \/ EnsureStateDirectories(p)
  PROVE  WorkspaceInv'
<1> DEFINE s(step) == [proc[p] EXCEPT !.at = step]
<1>0. sow \subseteq {"dir", "workspace.lock", "workspace-ops", "repo-locks"} /\ LockNeverLost
  BY DEF WorkspaceInv, Typed, FilesTyped, FilesSound
<1>1. ASSUME NEW step \in {"lockfile", "layout", "wantEx", "recover"}, Go(p, step),
             UNCHANGED <<config, journal, parts, moved, nextId, held>>, sow \subseteq sow',
             sow' \subseteq {"dir", "workspace.lock", "workspace-ops", "repo-locks"}, LockNeverLost',
             proc[p].at # "dists",
             step \in {"lockfile", "wantEx"} => held[p] = Unlocked,
             step = "layout" => Locked(held[p], s("layout"))' /\ (held[p].ws = "ex" => proc[p].recovering),
             step = "recover" => held[p].ws = "ex" /\ held[p].repo = None /\ proc[p].recovering
      PROVE  WorkspaceInv'
  <2>1. step \in Step
    BY DEF Step, Free
  <2>2. PICK t \in ProcRecord : t = [proc[p] EXCEPT !.at = step]
    BY <2>1, Gone
  <2>3. t.at = step /\ t.cmd = proc[p].cmd /\ t.repo = proc[p].repo /\ t.recovering = proc[p].recovering
    BY <2>1, <2>2, Gone
  <2>4. proc' = [proc EXCEPT ![p] = t]
    BY <1>1, <2>1, <2>2, Gone DEF Go
  <2>5. Locked(held[p], t)'
    BY <1>1, <2>2, <2>3, Mine, Gone DEF Locked, Free, Deciding, Settling, InRepository, Unlocked
  <2>6. Placed(held[p], t)'
    BY <1>1, <2>3, Mine DEF Placed, InRepository, Unlocked
  <2>7. Working(held[p], t)' /\ Carrying(t)'
    BY <1>1, <2>3 DEF Working, Carrying, Deciding, Settling, InRepository
  <2> QED
    BY <1>1, <2>4, <2>5, <2>6, <2>7, GrowingStep DEF Sound
<1>2. CASE Boot(p)
  <2>1. held[p] = Unlocked
    BY <1>2, Mine DEF Boot, At, Locked, Free
  <2>2. LockNeverLost'
    BY <1>0, <1>2 DEF Boot, LockNeverLost, StateEntries
  <2> QED
    BY <1>0, <1>1, <1>2, <2>1, <2>2 DEF Boot, At
<1>3. CASE EnsureWorkspaceLock(p)
  <2>1. held[p] = Unlocked
    BY <1>3, Mine DEF EnsureWorkspaceLock, At, Locked, Free
  <2>2. LockNeverLost' /\ "workspace.lock" \in sow'
    BY <1>0, <1>3 DEF EnsureWorkspaceLock, LockNeverLost
  <2>3. Locked(held[p], s("layout"))'
    BY <2>1, <2>2, <1>3, Gone DEF EnsureWorkspaceLock, Locked, Unlocked, Step, Free, Deciding, Settling, InRepository
  <2>4. PICK step \in {"layout", "wantEx"} : Go(p, step)
    BY <1>3 DEF EnsureWorkspaceLock
  <2>5. held[p].ws = "none" /\ proc[p].at # "dists"
    BY <1>3, <2>1 DEF Unlocked, EnsureWorkspaceLock, At
  <2>6. sow' = sow \union {"workspace.lock"} /\ UNCHANGED <<config, journal, parts, moved, nextId, held>>
    BY <1>3 DEF EnsureWorkspaceLock
  <2> HIDE DEF s
  <2> QED
    BY <1>0, <1>1, <2>1, <2>2, <2>3, <2>4, <2>5, <2>6
<1>4. CASE EnsureStateDirectories(p)
  <2>1. /\ "workspace.lock" \in sow /\ held[p].ws # "sh" /\ held[p].repo = None
        /\ held[p].ws = "none" => held[p] = Unlocked
        /\ held[p].ws = "ex" => proc[p].recovering
        /\ proc[p].at # "dists"
    BY <1>4, Mine DEF EnsureStateDirectories, At, Locked, Placed
  <2>2. held[p].ws \in {"none", "ex"}
    BY <2>1, Mine DEF HeldRecord
  <2>3. /\ sow' \in {sow \union {"workspace-ops"}, sow \union {"repo-locks"}}
        /\ UNCHANGED <<config, journal, parts, moved, nextId, held>>
    BY <1>4 DEF EnsureStateDirectories
  <2>4. PICK step \in {"layout", "wantEx", "recover"} :
          /\ Go(p, step)
          /\ step = "recover" => held[p].ws = "ex"
          /\ step = "wantEx" => held[p].ws # "ex"
    BY <1>4 DEF EnsureStateDirectories
  <2>5. LockNeverLost'
    BY <2>1, <2>3 DEF LockNeverLost
  <2>6. Locked(held[p], s("layout"))'
    BY <2>1, <2>2, <2>3, Gone DEF Locked, Unlocked, Step, Free, Deciding, Settling, InRepository
  <2> HIDE DEF s
  <2> QED
    BY <1>0, <1>1, <2>1, <2>2, <2>3, <2>4, <2>5, <2>6
<1> QED
  BY <1>2, <1>3, <1>4
\* acquireFileLock on the workspace, exclusively and shared.
LEMMA WorkspaceLockStep ==
  ASSUME WorkspaceInv, NEW p \in Proc, LockWorkspace(p) \/ ShareWorkspace(p)
  PROVE  WorkspaceInv'
<1>1. held[p] = Unlocked /\ proc[p].at \in {"wantEx", "wantSh"}
  BY Mine DEF LockWorkspace, ShareWorkspace, At, Locked, Free
<1>2. CASE LockWorkspace(p)
  <2> DEFINE step == IF proc[p].cmd = "init" THEN "layout" ELSE "recover"
             s == [proc[p] EXCEPT !.recovering = TRUE, !.at = step]
             h == [ws |-> "ex", repo |-> None, ino |-> 0]
  <2>1. step \in Step /\ step \in {"layout", "recover"}
    BY DEF Step
  <2> HIDE DEF step
  <2>2. s \in ProcRecord /\ s.at = step /\ s.recovering /\ s.cmd = proc[p].cmd /\ s.repo = proc[p].repo
    BY <2>1, Mine DEF ProcRecord
  <2>3. proc' = [proc EXCEPT ![p] = s]
    BY <1>2 DEF LockWorkspace, step, WorkspaceInv, Typed, ProcRecord
  <2>4. held' = [held EXCEPT ![p] = h]
    <3>1. [held[p] EXCEPT !.ws = "ex"] = h
      BY <1>1 DEF Unlocked
    <3>2. held' = [held EXCEPT ![p] = [held[p] EXCEPT !.ws = "ex"]]
      BY <1>2 DEF LockWorkspace, WorkspaceInv, Typed
    <3> QED
      BY <3>1, <3>2
  <2>5. h \in HeldRecord /\ h.ws = "ex" /\ h.repo = None
    BY WorkspaceAssumption DEF HeldRecord
  <2> HIDE DEF s, h
  <2>6. Locked(h, s)
    BY <1>2, <2>1, <2>2, <2>5 DEF LockWorkspace, Locked, Free, Deciding, Settling, InRepository
  <2>7. Placed(h, s)
    BY <1>1, <2>1, <2>2, Mine DEF Placed, InRepository
  <2>8. Working(h, s) /\ Carrying(s)
    BY <2>1, <2>2 DEF Working, Carrying, Deciding, Settling, InRepository
  <2>9. WorkspaceFree(p, "ex") /\ UNCHANGED files
    BY <1>2 DEF LockWorkspace
  <2> QED
    BY <2>2, <2>3, <2>4, <2>5, <2>6, <2>7, <2>8, <2>9, LocalStep DEF Sound
<1>3. CASE ShareWorkspace(p)
  <2> DEFINE s == [proc[p] EXCEPT !.at = "inspect"]
             h == [ws |-> "sh", repo |-> None, ino |-> 0]
  <2>1. "inspect" \in Step
    BY DEF Step
  <2>2. s \in ProcRecord /\ s.at = "inspect" /\ s.cmd = proc[p].cmd /\ s.repo = proc[p].repo
    BY <2>1, Gone
  <2>3. proc' = [proc EXCEPT ![p] = s]
    BY <1>3, <2>1, Gone DEF ShareWorkspace, Go
  <2>4. held' = [held EXCEPT ![p] = h]
    <3>1. [held[p] EXCEPT !.ws = "sh"] = h
      BY <1>1 DEF Unlocked
    <3>2. held' = [held EXCEPT ![p] = [held[p] EXCEPT !.ws = "sh"]]
      BY <1>3 DEF ShareWorkspace, WorkspaceInv, Typed
    <3> QED
      BY <3>1, <3>2
  <2>5. h \in HeldRecord /\ h.ws = "sh" /\ h.repo = None
    BY WorkspaceAssumption DEF HeldRecord
  <2> HIDE DEF s, h
  <2>6. Locked(h, s)
    BY <2>2, <2>5 DEF Locked, Free, Deciding, Settling, InRepository
  <2>7. Placed(h, s)
    BY <1>3, <2>2, <2>5, Mine DEF ShareWorkspace, At, Placed, InRepository
  <2>8. Working(h, s) /\ Carrying(s)
    BY <2>2 DEF Working, Carrying, Deciding, Settling, InRepository
  <2>9. WorkspaceFree(p, "sh") /\ UNCHANGED files
    BY <1>3 DEF ShareWorkspace
  <2> QED
    BY <2>2, <2>3, <2>4, <2>5, <2>6, <2>7, <2>8, <2>9, LocalStep DEF Sound
<1> QED
  BY <1>2, <1>3

\* A process that was at any step but dists keeps the repository it names.
LEMMA PlacedStill ==
  ASSUME WorkspaceInv, NEW p \in Proc, NEW h \in HeldRecord, NEW s \in ProcRecord,
         s.cmd = proc[p].cmd, s.repo = proc[p].repo, proc[p].at # "dists" \/ s.at = "dists",
         s.at \in {"recover", "layout"} => s.recovering,
         s.at \in {"wantSh", "inspect"} => s.cmd = "write",
         s.at = "ready" => s.cmd = "rm",
         s.at \in InRepository => s.repo \in Repo
  PROVE  Placed(h, s)
BY Mine DEF Placed, InRepository

\* A journal found under the shared lock is left to the exclusive one.
LEMMA InspectStep ==
  ASSUME WorkspaceInv, NEW p \in Proc, Inspect(p)
  PROVE  WorkspaceInv'
<1>1. /\ proc[p].at = "inspect" /\ held[p].ws = "sh" /\ held[p].repo = None
      /\ proc[p].cmd = "write" /\ proc[p].repo \in Repo
  BY Mine DEF Inspect, At, Locked, Placed
<1>2. CASE journal # None
  <2>1. "wantEx" \in Step
    BY DEF Step, Free
  <2>2. PICK s \in ProcRecord : s = [proc[p] EXCEPT !.at = "wantEx"]
    BY <2>1, Gone
  <2>3. s.at = "wantEx" /\ s.cmd = proc[p].cmd /\ s.repo = proc[p].repo
    BY <2>1, <2>2, Gone
  <2>4. proc' = [proc EXCEPT ![p] = s] /\ held' = [held EXCEPT ![p] = Unlocked] /\ UNCHANGED files
    BY <1>2, <2>1, <2>2, Gone DEF Inspect, Go
  <2>5. Placed(Unlocked, s)
    BY <1>1, <2>3, Rest, PlacedStill DEF InRepository
  <2> QED
    BY <2>3, <2>4, <2>5, ReleaseStep DEF Free
<1>3. CASE journal = None
  <2>1. "open" \in Step
    BY DEF Step, InRepository
  <2>2. PICK s \in ProcRecord : s = [proc[p] EXCEPT !.at = "open"]
    BY <2>1, Gone
  <2>3. s.at = "open" /\ s.cmd = proc[p].cmd /\ s.repo = proc[p].repo
    BY <2>1, <2>2, Gone
  <2>4. Placed(held[p], s)
    BY <1>1, <2>3, Mine, PlacedStill
  <2>5. Locked(held[p], s)
    BY <1>1, <2>3, Mine DEF Locked, Free, Deciding, Settling, InRepository
  <2>6. Working(held[p], s) /\ Carrying(s)
    BY <1>3, <2>3 DEF Working, Carrying, Deciding, Settling, InRepository
  <2> QED
    BY <1>3, <2>1, <2>2, <2>4, <2>5, <2>6, GoStep DEF Inspect, Sound
<1> QED
  BY <1>2, <1>3

\* The lock of a repository: the name is opened, its inode waited for.
LEMMA RepositoryLockStep ==
  ASSUME WorkspaceInv, NEW p \in Proc, OpenRepositoryLock(p) \/ LockRepository(p)
  PROVE  WorkspaceInv'
<1> DEFINE r == proc[p].repo
<1>1. /\ r \in Repo /\ proc[p].at \in {"open", "wantRepo"} /\ journal = None /\ held[p].repo = None
      /\ held[p].ws \in {"sh", "ex"} /\ (proc[p].cmd = "rm" => held[p].ws = "ex")
      /\ held[p].ws = "ex" => "workspace.lock" \in sow
  BY Mine DEF OpenRepositoryLock, LockRepository, At, Locked, Placed, Working, InRepository, HeldRecord
<1>2. parts[r].lock \in 0 .. MaxOps + 1
  BY <1>1, Names DEF WorkspaceInv, Typed, FilesTyped
<1>3. CASE OpenRepositoryLock(p)
  <2>1. "wantRepo" \in Step
    BY DEF Step, InRepository
  <2>2. PICK s \in ProcRecord : s = [proc[p] EXCEPT !.at = "wantRepo"]
    BY <2>1, Gone
  <2>3. s.at = "wantRepo" /\ s.cmd = proc[p].cmd /\ s.repo = r
    BY <2>1, <2>2, Gone
  <2>4. PICK h \in HeldRecord : h = [held[p] EXCEPT !.ino = parts[r].lock]
    BY <1>2, Mine DEF HeldRecord
  <2>5. h.ws = held[p].ws /\ h.repo = None /\ h.ino = parts[r].lock
    BY <1>1, <2>4, Mine DEF HeldRecord
  <2>6. held' = [held EXCEPT ![p] = h] /\ proc' = [proc EXCEPT ![p] = s]
    BY <1>3, <2>1, <2>2, <2>4, Gone DEF OpenRepositoryLock, Go, WorkspaceInv, Typed, HeldRecord
  <2>7. Locked(h, s)
    BY <1>1, <2>3, <2>5 DEF Locked, Free, Deciding, Settling, InRepository
  <2>8. Placed(h, s)
    BY <1>1, <2>3, PlacedStill
  <2>9. Working(h, s) /\ Carrying(s)
    BY <1>1, <1>3, <2>3, <2>5 DEF OpenRepositoryLock, Working, Carrying, Deciding, Settling, InRepository
  <2> QED
    BY <1>1, <1>3, <2>5, <2>6, <2>7, <2>8, <2>9, LocalStep DEF OpenRepositoryLock, Sound
<1>4. CASE LockRepository(p)
  <2>0. PICK step \in {"ready", "inside"} : Go(p, step) /\ (step = "ready" <=> proc[p].cmd = "rm")
    BY <1>4 DEF LockRepository
  <2>1. step \in Step
    BY DEF Step, InRepository, Settling
  <2>2. PICK s \in ProcRecord : s = [proc[p] EXCEPT !.at = step]
    BY <2>1, Gone
  <2>3. s.at = step /\ s.cmd = proc[p].cmd /\ s.repo = r
    BY <2>1, <2>2, Gone
  <2>4. PICK h \in HeldRecord : h = [held[p] EXCEPT !.repo = r]
    BY <1>1, Mine DEF HeldRecord
  <2>5. h.ws = held[p].ws /\ h.repo = r /\ h.ino = held[p].ino
    BY <1>1, <2>4, Mine DEF HeldRecord
  <2>6. held' = [held EXCEPT ![p] = h] /\ proc' = [proc EXCEPT ![p] = s]
    BY <1>4, <2>0, <2>1, <2>2, <2>4, Gone DEF LockRepository, Go, WorkspaceInv, Typed, HeldRecord
  <2>7. Locked(h, s)
    BY <1>1, <2>0, <2>3, <2>5 DEF Locked, Free, Deciding, Settling, InRepository
  <2>8. Placed(h, s)
    BY <1>1, <2>0, <2>3, PlacedStill
  <2>9. Working(h, s) /\ Carrying(s)
    BY <1>1, <1>4, <2>0, <2>3, <2>5, Mine
       DEF LockRepository, At, Working, Carrying, Deciding, Settling, InRepository
  <2>10. InodeFree(p, h.repo, h.ino) /\ UNCHANGED files
    BY <1>4, <2>5 DEF LockRepository
  <2> QED
    BY <1>1, <2>5, <2>6, <2>7, <2>8, <2>9, <2>10, LocalStep DEF Sound
<1> QED
  BY <1>3, <1>4
\* The work in a repository is done.
LEMMA LeaveStep ==
  ASSUME WorkspaceInv, NEW p \in Proc, Leave(p)
  PROVE  WorkspaceInv'
<1>1. CASE proc[p].cmd = "dists"
  <2>1. PICK s \in ProcRecord : s = [proc[p] EXCEPT !.at = "dists", !.todo = @ \ {proc[p].repo}]
    BY Mine DEF ProcRecord, Step, Free
  <2>2. s.at = "dists" /\ s.cmd = proc[p].cmd /\ s.repo = proc[p].repo
    BY <2>1, Mine DEF ProcRecord
  <2>3. proc' = [proc EXCEPT ![p] = s] /\ held' = [held EXCEPT ![p] = Unlocked] /\ UNCHANGED files
    BY <1>1, <2>1 DEF Leave, WorkspaceInv, Typed, ProcRecord
  <2>4. Placed(Unlocked, s)
    BY <2>2, Rest, PlacedStill DEF InRepository
  <2> QED
    BY <2>2, <2>3, <2>4, ReleaseStep DEF Free
<1>2. CASE proc[p].cmd # "dists"
  BY <1>2, FinishStep DEF Leave
<1> QED
  BY <1>1, <1>2

\* Init goes on to the dists without a lock, and takes both again for each.
LEMMA DistsStep ==
  ASSUME WorkspaceInv, NEW p \in Proc, InitDists(p) \/ NextDists(p) \/ DeclaredDists(p)
  PROVE  WorkspaceInv'
<1>1. CASE InitDists(p)
  <2>0. config.repos \in SUBSET Repo
    BY DEF WorkspaceInv, Typed, FilesTyped
  <2>1. PICK s \in ProcRecord : s = [Idle EXCEPT !.at = "dists", !.cmd = "dists", !.todo = config.repos]
    BY <2>0 DEF ProcRecord, Idle, Step, Free
  <2>2. s.at = "dists" /\ s.cmd = "dists"
    BY <2>1 DEF Idle
  <2>3. proc' = [proc EXCEPT ![p] = s] /\ held' = [held EXCEPT ![p] = Unlocked] /\ UNCHANGED files
    BY <1>1, <2>1 DEF InitDists
  <2>4. Placed(Unlocked, s)
    BY <2>2 DEF Placed, InRepository
  <2> QED
    BY <2>2, <2>3, <2>4, ReleaseStep DEF Free
<1>2. CASE NextDists(p) /\ proc[p].todo = {}
  BY <1>2, FinishStep DEF NextDists
<1>3. CASE NextDists(p) /\ proc[p].todo # {}
  <2>0. PICK r \in proc[p].todo : proc' = [proc EXCEPT ![p].repo = r, ![p].at = "wantEx"]
    BY <1>3 DEF NextDists
  <2>1. r \in Repo
    BY <2>0, Mine DEF ProcRecord
  <2>2. PICK s \in ProcRecord : s = [proc[p] EXCEPT !.repo = r, !.at = "wantEx"]
    BY <2>1, Mine DEF ProcRecord, Step, Free
  <2>3. s.at = "wantEx" /\ s.repo = r
    BY <2>2, Mine DEF ProcRecord
  <2>4. proc' = [proc EXCEPT ![p] = s]
    BY <2>0, <2>2 DEF WorkspaceInv, Typed, ProcRecord
  <2>5. held[p] = Unlocked
    BY <1>3, Mine DEF NextDists, At, Locked, Free
  <2>6. held' = [held EXCEPT ![p] = Unlocked] /\ UNCHANGED files
    BY <1>3, <2>5 DEF NextDists, WorkspaceInv, Typed
  <2>7. Placed(Unlocked, s)
    BY <2>1, <2>3 DEF Placed, InRepository
  <2> QED
    BY <2>3, <2>4, <2>6, <2>7, ReleaseStep DEF Free
<1>4. CASE DeclaredDists(p) /\ proc[p].repo \in config.repos
  <2>1. /\ proc[p].at = "command" /\ held[p].ws = "ex" /\ held[p].repo = None /\ journal = None
        /\ proc[p].cmd = "dists" /\ proc[p].repo \in Repo /\ "workspace.lock" \in sow
    BY <1>4, Mine DEF DeclaredDists, At, Locked, Placed, Working, Settling
  <2>2. "open" \in Step
    BY DEF Step, InRepository
  <2>3. PICK s \in ProcRecord : s = [proc[p] EXCEPT !.at = "open"]
    BY <2>2, Gone
  <2>4. s.at = "open" /\ s.cmd = proc[p].cmd /\ s.repo = proc[p].repo
    BY <2>2, <2>3, Gone
  <2>5. Locked(held[p], s)
    BY <2>1, <2>4 DEF Locked, Free, Deciding, Settling, InRepository
  <2>6. Placed(held[p], s)
    BY <2>1, <2>4, Mine, PlacedStill
  <2>7. Working(held[p], s) /\ Carrying(s)
    BY <2>1, <2>4 DEF Working, Carrying, Deciding, Settling, InRepository
  <2> QED
    BY <1>4, <2>2, <2>3, <2>5, <2>6, <2>7, GoStep DEF DeclaredDists, Sound
<1>5. CASE DeclaredDists(p) /\ proc[p].repo \notin config.repos
  <2>1. PICK s \in ProcRecord : s = [proc[p] EXCEPT !.at = "dists", !.todo = @ \ {proc[p].repo}]
    BY Mine DEF ProcRecord, Step, Free
  <2>2. s.at = "dists" /\ s.cmd = proc[p].cmd /\ s.repo = proc[p].repo
    BY <2>1, Mine DEF ProcRecord
  <2>3. proc' = [proc EXCEPT ![p] = s] /\ held' = [held EXCEPT ![p] = Unlocked] /\ UNCHANGED files
    BY <1>5, <2>1 DEF DeclaredDists, WorkspaceInv, Typed, ProcRecord
  <2>4. Placed(Unlocked, s)
    BY <2>2, Rest, PlacedStill DEF InRepository
  <2> QED
    BY <2>2, <2>3, <2>4, ReleaseStep DEF Free
<1> QED
  BY <1>1, <1>2, <1>3, <1>4, <1>5

\* A command in a repository recovered the workspace and starts again.
LEMMA RestartStep ==
  ASSUME WorkspaceInv, NEW p \in Proc, Restart(p)
  PROVE  WorkspaceInv'
<1>1. "wantSh" \in Step
  BY DEF Step, Free
<1>2. PICK s \in ProcRecord : s = [proc[p] EXCEPT !.at = "wantSh"]
  BY <1>1, Gone
<1>3. s.at = "wantSh" /\ s.cmd = proc[p].cmd /\ s.repo = proc[p].repo
  BY <1>1, <1>2, Gone
<1>4. proc' = [proc EXCEPT ![p] = s] /\ held' = [held EXCEPT ![p] = Unlocked] /\ UNCHANGED files
  BY <1>1, <1>2, Gone DEF Restart, Go
<1>5. proc[p].at # "dists" /\ proc[p].cmd = "write"
  BY DEF Restart, At
<1>6. Placed(Unlocked, s)
  BY <1>3, <1>5, Rest, PlacedStill DEF InRepository
<1> QED
  BY <1>3, <1>4, <1>6, ReleaseStep DEF Free

\* repo rm asks for the lock of the repository, init checks what it found.
LEMMA CommandStep ==
  ASSUME WorkspaceInv, NEW p \in Proc,
         RemoveRepository(p) \/ InitCheck(p) \/ (InitWorkspace(p) /\ config.exists)
  PROVE  WorkspaceInv'
<1>1. /\ proc[p].at \in {"command", "initCheck"} /\ held[p].ws = "ex" /\ journal = None /\ "workspace.lock" \in sow
      /\ proc[p].at = "command" => held[p].repo = None
  BY Mine DEF RemoveRepository, InitCheck, InitWorkspace, At, Locked, Working, Settling
<1>2. PICK step \in {"open", "initCheck", "initLoop"} :
        /\ Go(p, step)
        /\ step = "open" => RemoveRepository(p)
        /\ step = "initLoop" => InitCheck(p)
  BY DEF RemoveRepository, InitCheck, InitWorkspace
<1>3. step \in Step /\ UNCHANGED <<files, held>>
  BY <1>2 DEF Step, InRepository, Settling, RemoveRepository, InitCheck, InitWorkspace
<1>4. PICK s \in ProcRecord : s = [proc[p] EXCEPT !.at = step]
  BY <1>3, Gone
<1>5. s.at = step /\ s.cmd = proc[p].cmd /\ s.repo = proc[p].repo
  BY <1>3, <1>4, Gone
<1>6. step = "open" => proc[p].at = "command" /\ proc[p].cmd = "rm" /\ proc[p].repo \in Repo
  BY <1>2, Mine DEF RemoveRepository, At, Placed
<1>7. Locked(held[p], s)
  BY <1>1, <1>2, <1>5, <1>6 DEF Locked, Free, Deciding, Settling, InRepository
<1>8. Placed(held[p], s)
  BY <1>1, <1>2, <1>5, <1>6, Mine, PlacedStill DEF InRepository
<1>9. step = "initLoop" => Initialisable(None)
  <2> SUFFICES ASSUME ConfigChecked(p), NEW r \in config.repos  PROVE Present(r) = {} \/ Whole(r)
    BY <1>2 DEF Initialisable, InitCheck
  <2>1. r \in Repo /\ (Bare(r) \/ Whole(r)) /\ parts[r].lock # Foreign /\ parts[r].db # Foreign
    BY <1>1, Names DEF WorkspaceInv, Typed, FilesTyped, FilesSound
  <2>2. CASE Bare(r)
    <3>1. parts[r].lock = NoPart /\ parts[r].db = NoPart
      BY <2>1, <2>2, Names DEF Bare
    <3>2. Present(r) \subseteq {"lock"}
      BY <3>1 DEF ConfigChecked
    <3> QED
      BY <3>1, <3>2 DEF Present
  <2> QED
    BY <2>1, <2>2
<1>10. Working(held[p], s) /\ Carrying(s)
  BY <1>1, <1>2, <1>5, <1>9 DEF Working, Carrying, Deciding, Settling, InRepository
<1> QED
  BY <1>2, <1>3, <1>4, <1>7, <1>8, <1>10, GoStep DEF Sound

-----------------------------------------------------------------------------
(* recoverWorkspaceOperation *)

\* Without a journal the command goes on.
LEMMA RecoverNoneStep ==
  ASSUME WorkspaceInv, NEW p \in Proc, RecoverNone(p)
  PROVE  WorkspaceInv'
<1>1. /\ proc[p].at = "recover" /\ held[p].ws = "ex" /\ held[p].repo = None /\ journal = None
      /\ "workspace.lock" \in sow
  BY Mine DEF RecoverNone, At, Locked
<1>2. PICK s \in ProcRecord : s = [proc[p] EXCEPT !.recovering = FALSE, !.at = "command"]
  BY Mine DEF ProcRecord, Step, Settling
<1>3. s.at = "command" /\ s.cmd = proc[p].cmd /\ s.repo = proc[p].repo
  BY <1>2, Mine DEF ProcRecord
<1>4. PICK h \in HeldRecord : h = held[p]
  BY Mine
<1>5. held' = [held EXCEPT ![p] = h] /\ proc' = [proc EXCEPT ![p] = s] /\ UNCHANGED files
  BY <1>2, <1>4 DEF RecoverNone, WorkspaceInv, Typed, ProcRecord
<1>6. Locked(h, s)
  BY <1>1, <1>3, <1>4 DEF Locked, Free, Deciding, Settling, InRepository
<1>7. Placed(h, s)
  BY <1>1, <1>3, PlacedStill DEF InRepository
<1>8. Working(h, s) /\ Carrying(s)
  BY <1>1, <1>3 DEF Working, Carrying, Deciding, Settling, InRepository
<1> QED
  BY <1>1, <1>4, <1>5, <1>6, <1>7, <1>8, LocalStep DEF Sound

\* A journal nothing was decided of is cleared, and nothing has been done.
LEMMA NothingDone ==
  ASSUME WorkspaceInv, journal # None, Undecided
  PROVE  CarriedOut
<1>1. moved = {}
  BY DEF WorkspaceInv, FilesSound, Decided
<1>2. journal \in JournalRecord
  BY DEF WorkspaceInv, Typed, FilesTyped
<1>3. journal.kind \in {"workspace.init", "repo.init", "repo.new", "repo.rm"}
  BY <1>2 DEF JournalRecord
<1>4. CASE journal.kind = "workspace.init"
  BY <1>1, <1>4 DEF WorkspaceInv, JournalSound, CarriedOut
<1>5. CASE journal.kind # "workspace.init"
  <2>1. config.repos = journal.old /\ journal.kind # "repo.init"
    BY <1>5 DEF Undecided
  <2> QED
    BY <1>1, <1>3, <1>5, <2>1 DEF WorkspaceInv, JournalSound, CarriedOut
<1> QED
  BY <1>4, <1>5

\* A journal is cleared or carried out, as sow.yml says.
LEMMA RecoverJournalStep ==
  ASSUME WorkspaceInv, NEW p \in Proc, RecoverJournal(p)
  PROVE  WorkspaceInv'
<1>1. /\ proc[p].at = "recover" /\ held[p].ws = "ex" /\ held[p].repo = None /\ journal # None
      /\ "workspace.lock" \in sow /\ proc[p].recovering
  BY Mine DEF RecoverJournal, At, Locked, Placed
<1>2. journal.kind \in {"workspace.init", "repo.init", "repo.new", "repo.rm"}
  BY <1>1 DEF WorkspaceInv, Typed, FilesTyped, JournalRecord
<1>3. PICK step \in {"clear", "rmlock", "shell"} :
        /\ Go(p, step)
        /\ step = "clear" => Undecided \/ (Decided /\ journal.kind = "workspace.init")
        /\ step = "rmlock" => Decided /\ journal.kind = "repo.rm"
        /\ step = "shell" => Decided /\ journal.kind \in {"repo.new", "repo.init"}
  <2>1. CASE Undecided /\ Go(p, "clear")
    BY <2>1
  <2>2. CASE Decided /\ Go(p, CASE journal.kind = "workspace.init" -> "clear"
                   [] journal.kind = "repo.rm" -> "rmlock"
                   [] OTHER -> "shell")
    BY <1>2, <2>2
  <2> QED
    BY <2>1, <2>2 DEF RecoverJournal
<1>4. step \in Step /\ UNCHANGED <<files, held>>
  BY DEF Step, Deciding, RecoverJournal
<1>5. PICK s \in ProcRecord : s = [proc[p] EXCEPT !.at = step]
  BY <1>4, Gone
<1>6. s.at = step /\ s.cmd = proc[p].cmd /\ s.repo = proc[p].repo /\ s.recovering = proc[p].recovering
  BY <1>4, <1>5, Gone
<1>7. Locked(held[p], s)
  BY <1>1, <1>3, <1>6 DEF Locked, Free, Deciding, Settling, InRepository
<1>8. Placed(held[p], s)
  BY <1>1, <1>3, <1>6, Mine, PlacedStill DEF InRepository
<1>9. step = "clear" => CarriedOut
  <2>1. Decided /\ journal.kind = "workspace.init" => CarriedOut
    BY <1>1 DEF WorkspaceInv, JournalSound, FilesSound, CarriedOut
  <2> QED
    BY <1>1, <1>3, <2>1, NothingDone
<1>10. Working(held[p], s)
  BY <1>3, <1>6 DEF Working, Settling, InRepository
<1>11. Carrying(s)
  BY <1>1, <1>3, <1>6, <1>9 DEF Carrying, Deciding
<1> QED
  BY <1>3, <1>4, <1>5, <1>7, <1>8, <1>10, <1>11, GoStep DEF Sound

\* A removal goes on under the repository's lock, or without it.
LEMMA RecoverRemovalLockStep ==
  ASSUME WorkspaceInv, NEW p \in Proc, RecoverRemovalLock(p)
  PROVE  WorkspaceInv'
<1> DEFINE r == journal.repo
<1>1. /\ proc[p].at = "rmlock" /\ held[p].ws = "ex" /\ journal # None /\ Decided /\ journal.kind = "repo.rm"
      /\ "workspace.lock" \in sow
  BY Mine DEF RecoverRemovalLock, At, Locked, Carrying, Deciding
<1>2. r \in Repo
  BY <1>1 DEF WorkspaceInv, JournalSound
<1>3. "move" \in Step
  BY DEF Step, Deciding
<1>4. PICK s \in ProcRecord : s = [proc[p] EXCEPT !.at = "move"]
  BY <1>3, Gone
<1>5. s.at = "move" /\ s.cmd = proc[p].cmd /\ s.repo = proc[p].repo /\ s.recovering = proc[p].recovering
  BY <1>3, <1>4, Gone
<1>6. PICK h \in HeldRecord :
        /\ held' = [held EXCEPT ![p] = h]
        /\ h.ws = held[p].ws
        /\ h.repo # None => InodeFree(p, h.repo, h.ino) \/ (h.repo = held[p].repo /\ h.ino = held[p].ino)
  <2>1. CASE parts[r].lock # NoPart
    <3>1. parts[r].lock \in 0 .. MaxOps + 1
      BY <1>2, Names DEF WorkspaceInv, Typed, FilesTyped
    <3>2. PICK h \in HeldRecord : h = [held[p] EXCEPT !.repo = r, !.ino = parts[r].lock]
      BY <1>2, <3>1, Mine DEF HeldRecord
    <3>3. h.ws = held[p].ws /\ h.repo = r /\ h.ino = parts[r].lock
      BY <3>2, Mine DEF HeldRecord
    <3>4. held' = [held EXCEPT ![p] = h]
      BY <2>1, <3>2 DEF RecoverRemovalLock, WorkspaceInv, Typed, HeldRecord
    <3>5. InodeFree(p, h.repo, h.ino)
      BY <2>1, <3>3 DEF RecoverRemovalLock
    <3> QED
      BY <3>3, <3>4, <3>5
  <2>2. CASE parts[r].lock = NoPart
    BY <2>2, Mine DEF RecoverRemovalLock, WorkspaceInv, Typed
  <2> QED
    BY <2>1, <2>2
<1>7. proc' = [proc EXCEPT ![p] = s] /\ UNCHANGED files
  BY <1>3, <1>4, Gone DEF RecoverRemovalLock, Go
<1>8. Locked(h, s)
  BY <1>1, <1>5, <1>6 DEF Locked, Free, Deciding, Settling, InRepository
<1>9. Placed(h, s)
  BY <1>1, <1>5, PlacedStill DEF InRepository
<1>10. Working(h, s) /\ Carrying(s)
  BY <1>1, <1>5 DEF Working, Carrying, Settling, InRepository, Deciding
<1> QED
  BY <1>1, <1>6, <1>7, <1>8, <1>9, <1>10, LocalStep DEF Sound
-----------------------------------------------------------------------------
(* The steps of a lifecycle operation *)

\* persistWorkspaceJournal: everything else of the files stays.
LEMMA JournalStep ==
  ASSUME WorkspaceInv, NEW p \in Proc, NEW kind \in {"workspace.init", "repo.init", "repo.new", "repo.rm"},
         NEW r \in Repo \union {None}, NEW new \in SUBSET Repo, NEW step \in {"config", "shell"},
         Journal(p, kind, r, new, step), journal = None, held[p].ws = "ex", proc[p].at # "dists",
         kind = "workspace.init" => r = None /\ new = {} /\ ~config.exists,
         kind # "workspace.init" => r \in Repo,
         kind = "repo.new" => r \notin config.repos /\ new = config.repos \union {r} /\ Present(r) = {},
         kind = "repo.rm" => r \in config.repos /\ new = config.repos \ {r} /\ Whole(r),
         kind = "repo.init" => r \in config.repos /\ new = config.repos /\ Present(r) = {} /\ Initialisable(r),
         step = "shell" <=> kind = "repo.init"
  PROVE  WorkspaceInv'
<1>1. /\ journal' = [id |-> nextId, kind |-> kind, repo |-> r, phase |-> "planned",
                     old |-> config.repos, new |-> new]
      /\ nextId <= MaxOps /\ nextId' = nextId + 1 /\ UNCHANGED <<sow, config, parts, moved, held>> /\ Go(p, step)
  BY DEF Journal
<1>2. FilesTyped
  BY DEF WorkspaceInv, Typed
<1>3. /\ journal'.id = nextId /\ journal'.kind = kind /\ journal'.repo = r /\ journal'.phase = "planned"
      /\ journal'.old = config.repos /\ journal'.new = new
  BY <1>1
<1>4. journal' \in JournalRecord /\ nextId' \in 1 .. MaxOps + 1
  BY <1>1, <1>2, WorkspaceAssumption DEF FilesTyped, JournalRecord
<1>5. FilesTyped'
  BY <1>1, <1>2, <1>4 DEF FilesTyped
<1>6. journal' # None
  BY <1>4, NoneAssumption
<1>7. moved = {} /\ moved' = {}
  BY <1>1 DEF WorkspaceInv, FilesSound
<1>8. FilesSound'
  <2>1. \A x \in Repo : Bare(x) \/ Whole(x)
    BY DEF WorkspaceInv, FilesSound
  <2>2. \A x \in Repo : Bare(x)' \/ Whole(x)'
    BY <1>1, <2>1 DEF Bare, Whole
  <2>3. LockNeverLost'
    BY <1>1 DEF WorkspaceInv, FilesSound, LockNeverLost, StateEntries
  <2>4. /\ \A x \in Repo : \A q \in Part : parts'[x][q] = Foreign => q = "repository"
        /\ ~config'.exists => config'.repos = {}
    BY <1>1 DEF WorkspaceInv, FilesSound
  <2> QED
    BY <1>7, <2>2, <2>3, <2>4 DEF FilesSound
<1>9. kind # "repo.init" => Undecided'
  BY <1>1, <1>3 DEF Undecided
<1>10. kind = "repo.init" => Decided' /\ ~Undecided'
  <2> SUFFICES ASSUME kind = "repo.init"  PROVE Decided' /\ ~Undecided'
    OBVIOUS
  <2>1. config.exists
    BY DEF WorkspaceInv, FilesSound
  <2> QED
    BY <1>1, <1>3, <2>1 DEF Undecided, Decided
<1>11. JournalSound'
  <2>1. kind # "repo.init" => ~Decided'
    BY <1>9 DEF Decided
  <2>2. /\ kind = "repo.new" => Present(r)' = {}
        /\ kind = "repo.rm" => Whole(r)'
        /\ kind = "repo.init" => \A q \in Part : parts'[r][q] \in {NoPart, journal'.id}
    BY <1>1 DEF Present, Whole
  <2> QED
    BY <1>3, <1>9, <1>10, <2>1, <2>2 DEF JournalSound
<1>12. step \in Step /\ step \in Deciding
  BY DEF Step, Deciding
<1>13. PICK s \in ProcRecord : s = [proc[p] EXCEPT !.at = step]
  BY <1>12, Gone
<1>14. s.at = step /\ s.cmd = proc[p].cmd /\ s.repo = proc[p].repo /\ s.recovering = proc[p].recovering
  BY <1>12, <1>13, Gone
<1>15. PICK h \in HeldRecord : h = held[p]
  BY Mine
<1>16. held' = [held EXCEPT ![p] = h] /\ proc' = [proc EXCEPT ![p] = s]
  BY <1>1, <1>12, <1>13, <1>15, Gone DEF Go
<1>17. Locked(h, s)'
  <2>1. "workspace.lock" \in sow'
    BY <1>1, Mine DEF Locked
  <2> QED
    BY <1>14, <1>15, <2>1 DEF Locked, Free, Deciding, Settling, InRepository
<1>18. Placed(h, s)'
  <2>1. Placed(h, s)
    BY <1>14, PlacedStill DEF InRepository
  <2> QED
    BY <2>1 DEF Placed
<1>19. Working(h, s)'
  BY <1>14 DEF Working, Settling, InRepository
<1>20. Carrying(s)'
  <2>1. kind = "repo.init" => Initialisable(r)'
    BY <1>1 DEF Initialisable, Present, Whole
  <2> QED
    BY <1>3, <1>6, <1>9, <1>10, <1>14, <2>1 DEF Carrying, Deciding
<1> QED
  BY <1>1, <1>5, <1>8, <1>11, <1>15, <1>16, <1>17, <1>18, <1>19, <1>20, ExclusiveStep DEF Sound

\* A complete repository no journal names was made by one operation.
LEMMA CompleteWhole ==
  ASSUME WorkspaceInv, NEW r \in Repo, journal = None
  PROVE  /\ parts[r].lock # NoPart => Whole(r)
         /\ Whole(r) => Complete(r) /\ parts[r].lock # NoPart
<1>1. Bare(r) \/ Whole(r)
  BY DEF WorkspaceInv, FilesSound
<1>2. parts[r].lock # Foreign
  BY Names DEF WorkspaceInv, FilesSound
<1> QED
  BY <1>1, <1>2, Names DEF Bare, Whole, Complete, Present

\* Each command journals what it is about to do.
LEMMA PlanStep ==
  ASSUME WorkspaceInv, NEW p \in Proc,
         \/ NewRepository(p) \/ PlanRemoval(p)
         \/ (InitWorkspace(p) /\ ~config.exists)
         \/ (\E r \in Repo : InitRepository(p, r))
  PROVE  WorkspaceInv'
<1>1. /\ proc[p].at \in {"command", "ready", "initLoop"} /\ held[p].ws = "ex" /\ journal = None
      /\ proc[p].at # "dists"
  BY Mine DEF NewRepository, PlanRemoval, InitWorkspace, InitRepository, At, Locked, Working, Settling
<1>2. config.repos \in SUBSET Repo
  BY DEF WorkspaceInv, Typed, FilesTyped
<1>3. CASE NewRepository(p)
  <2>1. proc[p].repo \in Repo
    BY <1>3, Mine DEF NewRepository, Placed
  <2>2. /\ Journal(p, "repo.new", proc[p].repo, config.repos \union {proc[p].repo}, "config")
        /\ proc[p].repo \notin config.repos /\ Present(proc[p].repo) = {}
    BY <1>3 DEF NewRepository
  <2> QED
    BY <1>1, <1>2, <2>1, <2>2, JournalStep
<1>4. CASE PlanRemoval(p)
  <2>1. proc[p].repo \in Repo /\ proc[p].repo \in config.repos /\ parts[proc[p].repo].lock # NoPart
    BY <1>4, Mine DEF PlanRemoval, At, Placed, Working
  <2>2. Whole(proc[p].repo)
    BY <1>1, <2>1, CompleteWhole
  <2>3. Journal(p, "repo.rm", proc[p].repo, config.repos \ {proc[p].repo}, "config")
    BY <1>4 DEF PlanRemoval
  <2> QED
    BY <1>1, <1>2, <2>1, <2>2, <2>3, JournalStep
<1>5. CASE InitWorkspace(p) /\ ~config.exists
  <2>1. Journal(p, "workspace.init", None, {}, "config")
    BY <1>5 DEF InitWorkspace
  <2> QED
    BY <1>1, <1>5, <2>1, JournalStep
<1>6. CASE \E r \in Repo : InitRepository(p, r)
  <2>1. PICK r \in Repo : InitRepository(p, r)
    BY <1>6
  <2>2. /\ r \in config.repos /\ ~Complete(r) /\ proc[p].at = "initLoop"
        /\ Journal(p, "repo.init", r, config.repos, "shell")
    BY <2>1 DEF InitRepository, At
  <2>3. Initialisable(None)
    BY <2>2, Mine DEF Working
  <2>4. Present(r) = {}
    BY <1>1, <2>2, <2>3, CompleteWhole, WorkspaceAssumption DEF Initialisable
  <2>5. Initialisable(r)
    BY <1>2, <2>3, WorkspaceAssumption DEF Initialisable
  <2> QED
    BY <1>1, <1>2, <2>2, <2>4, <2>5, JournalStep
<1> QED
  BY <1>3, <1>4, <1>5, <1>6

\* sow.yml is renamed into place.
LEMMA WriteConfigStep ==
  ASSUME WorkspaceInv, NEW p \in Proc, WriteConfig(p)
  PROVE  WorkspaceInv'
<1>1. /\ proc[p].at = "config" /\ held[p].ws = "ex" /\ journal # None /\ Undecided /\ "workspace.lock" \in sow
  BY Mine DEF WriteConfig, At, Locked, Carrying, Deciding
<1>2. /\ config' = [exists |-> TRUE, repos |-> journal.new] /\ Go(p, "applied")
      /\ UNCHANGED <<sow, journal, parts, moved, nextId, held>>
  BY DEF WriteConfig
<1>3. config'.exists /\ config'.repos = journal.new
  BY <1>2
<1>4. journal \in JournalRecord
  BY <1>1 DEF WorkspaceInv, Typed, FilesTyped
<1>5. journal.kind \in {"workspace.init", "repo.init", "repo.new", "repo.rm"} /\ journal.new \in SUBSET Repo
  BY <1>4 DEF JournalRecord
<1>6. FilesTyped'
  BY <1>2, <1>5 DEF WorkspaceInv, Typed, FilesTyped
<1>7. journal.kind # "repo.init" /\ moved = {}
  BY <1>1 DEF Undecided, WorkspaceInv, FilesSound, Decided
<1>8. Decided' /\ ~Undecided'
  <2>1. journal.kind # "workspace.init" => journal.new # journal.old
    BY <1>1, <1>5, <1>7 DEF WorkspaceInv, JournalSound
  <2> QED
    BY <1>2, <1>3, <2>1 DEF Decided, Undecided
<1>9. FilesSound'
  <2>1. \A x \in Repo : (journal = None \/ journal.repo # x) => Bare(x)' \/ Whole(x)'
    BY <1>2 DEF WorkspaceInv, FilesSound, Bare, Whole
  <2>2. LockNeverLost'
    BY <1>2 DEF WorkspaceInv, FilesSound, LockNeverLost, StateEntries
  <2> QED
    BY <1>2, <1>3, <1>7, <2>1, <2>2 DEF WorkspaceInv, FilesSound
<1>10. JournalSound'
  <2> DEFINE r == journal.repo
  <2>1. journal.kind = "repo.new" => \A q \in Part : parts'[r][q] = NoPart
    BY <1>1, <1>2 DEF WorkspaceInv, JournalSound, Present
  <2>2. ASSUME journal.kind = "repo.rm"  PROVE Removing(r)'
    <3>1. Whole(r)
      BY <1>1, <2>2 DEF WorkspaceInv, JournalSound
    <3>2. \A q \in Part : parts'[r][q] # NoPart
      BY <1>2, <3>1 DEF Whole
    <3>3. \A g \in DOMAIN Inside : g \in Part /\ Inside[g] \subseteq Part
      BY Names
    <3> QED
      BY <1>2, <1>7, <3>2, <3>3 DEF Removing
  <2> QED
    BY <1>1, <1>2, <1>7, <1>8, <2>1, <2>2 DEF WorkspaceInv, JournalSound
<1>11. "applied" \in Step
  BY DEF Step, Deciding
<1>12. PICK s \in ProcRecord : s = [proc[p] EXCEPT !.at = "applied"]
  BY <1>11, Gone
<1>13. s.at = "applied" /\ s.cmd = proc[p].cmd /\ s.repo = proc[p].repo /\ s.recovering = proc[p].recovering
  BY <1>11, <1>12, Gone
<1>14. PICK h \in HeldRecord : h = held[p]
  BY Mine
<1>15. held' = [held EXCEPT ![p] = h] /\ proc' = [proc EXCEPT ![p] = s]
  BY <1>2, <1>11, <1>12, <1>14, Gone DEF Go
<1>16. Locked(h, s)'
  BY <1>1, <1>2, <1>13, <1>14 DEF Locked, Free, Deciding, Settling, InRepository
<1>17. Placed(h, s)
  BY <1>1, <1>13, PlacedStill DEF InRepository
<1>18. Placed(h, s)'
  BY <1>17 DEF Placed
<1>19. Working(h, s)'
  BY <1>13 DEF Working, Settling, InRepository
<1>20. Carrying(s)'
  BY <1>1, <1>2, <1>7, <1>8, <1>13 DEF Carrying, Deciding
<1> QED
  BY <1>1, <1>2, <1>6, <1>9, <1>10, <1>14, <1>15, <1>16, <1>18, <1>19, <1>20, ExclusiveStep DEF Sound
\* The journal says that sow.yml is in place.
LEMMA MarkAppliedStep ==
  ASSUME WorkspaceInv, NEW p \in Proc, MarkApplied(p)
  PROVE  WorkspaceInv'
<1>1. /\ proc[p].at = "applied" /\ held[p].ws = "ex" /\ journal # None /\ Decided /\ "workspace.lock" \in sow
      /\ journal.kind # "repo.init"
  BY Mine DEF MarkApplied, At, Locked, Carrying, Deciding
<1>2. journal' = [journal EXCEPT !.phase = "applied"] /\ UNCHANGED <<sow, config, parts, moved, nextId, held>>
  BY DEF MarkApplied
<1>3. journal \in JournalRecord
  BY <1>1 DEF WorkspaceInv, Typed, FilesTyped
<1>4. /\ journal' \in JournalRecord /\ journal'.id = journal.id /\ journal'.kind = journal.kind
      /\ journal'.repo = journal.repo /\ journal'.old = journal.old /\ journal'.new = journal.new
      /\ journal.kind \in {"workspace.init", "repo.init", "repo.new", "repo.rm"}
  BY <1>2, <1>3 DEF JournalRecord
<1>5. journal' # None
  BY <1>4, NoneAssumption
<1>6. Decided' /\ ~Undecided' /\ ~Undecided
  BY <1>1, <1>2, <1>4 DEF Decided, Undecided
<1>7. FilesTyped'
  BY <1>2, <1>4 DEF WorkspaceInv, Typed, FilesTyped
<1>8. FilesSound'
  <2>1. \A x \in Repo : journal.repo # x => Bare(x)' \/ Whole(x)'
    BY <1>2 DEF WorkspaceInv, FilesSound, Bare, Whole
  <2>2. LockNeverLost'
    BY <1>2 DEF WorkspaceInv, FilesSound, LockNeverLost, StateEntries
  <2> QED
    BY <1>2, <1>4, <1>5, <1>6, <2>1, <2>2 DEF WorkspaceInv, FilesSound
<1>9. JournalSound'
  <2> DEFINE r == journal.repo
  <2>1. journal.kind = "repo.rm" => Removing(r)'
    <3>1. journal.kind = "repo.rm" => Removing(r)
      BY <1>1 DEF WorkspaceInv, JournalSound
    <3> QED
      BY <1>2, <1>4, <3>1 DEF Removing, Present
  <2> QED
    BY <1>1, <1>2, <1>4, <1>6, <2>1 DEF WorkspaceInv, JournalSound
<1>10. PICK step \in {"clear", "move", "shell"} :
         /\ Go(p, step)
         /\ step = "clear" => journal.kind = "workspace.init"
         /\ step = "move" => journal.kind = "repo.rm"
         /\ step = "shell" => journal.kind = "repo.new"
  BY <1>1, <1>4 DEF MarkApplied, AfterConfig
<1>11. step \in Step /\ step \in Deciding
  BY DEF Step, Deciding
<1>12. PICK s \in ProcRecord : s = [proc[p] EXCEPT !.at = step]
  BY <1>11, Gone
<1>13. s.at = step /\ s.cmd = proc[p].cmd /\ s.repo = proc[p].repo /\ s.recovering = proc[p].recovering
  BY <1>11, <1>12, Gone
<1>14. PICK h \in HeldRecord : h = held[p]
  BY Mine
<1>15. held' = [held EXCEPT ![p] = h] /\ proc' = [proc EXCEPT ![p] = s]
  BY <1>2, <1>10, <1>11, <1>12, <1>14, Gone DEF Go
<1>16. Locked(h, s)'
  BY <1>1, <1>2, <1>10, <1>13, <1>14 DEF Locked, Free, Deciding, Settling, InRepository
<1>17. Placed(h, s)
  BY <1>1, <1>10, <1>13, PlacedStill DEF InRepository
<1>18. Placed(h, s)'
  BY <1>17 DEF Placed
<1>19. Working(h, s)'
  BY <1>10, <1>13 DEF Working, Settling, InRepository
<1>20. step = "clear" => CarriedOut'
  <2>1. journal.kind = "workspace.init" => journal.repo = None /\ moved = {}
    BY <1>1 DEF WorkspaceInv, JournalSound, FilesSound
  <2> QED
    BY <1>2, <1>4, <1>10, <2>1 DEF CarriedOut
<1>21. Carrying(s)'
  BY <1>4, <1>5, <1>6, <1>10, <1>13, <1>20 DEF Carrying, Deciding
<1> QED
  BY <1>1, <1>2, <1>7, <1>8, <1>9, <1>14, <1>15, <1>16, <1>18, <1>19, <1>21, ExclusiveStep DEF Sound

\* A decided operation goes on: its journal stays, p keeps its locks, and only
\* files of its repository and moved paths change.
LEMMA CarryStep ==
  ASSUME WorkspaceInv, NEW p \in Proc, NEW step \in {"shell", "move", "purge", "clear"},
         held[p].ws = "ex", proc[p].at \in Deciding, journal # None, Decided,
         Go(p, step), UNCHANGED <<sow, config, journal, nextId, held>>,
         parts' \in [Repo -> [Part -> 0 .. MaxOps + 1]],
         moved' \subseteq (1 .. MaxOps) \X ({"dir"} \union DOMAIN Inside),
         moved' # {} => journal.kind = "repo.rm",
         \A x \in Repo : x # journal.repo => parts'[x] = parts[x],
         journal.repo # None =>
           \A q \in Part : parts'[journal.repo][q] = Foreign => parts[journal.repo][q] = Foreign,
         journal.kind \in {"repo.new", "repo.init"} =>
           \A q \in Part : parts'[journal.repo][q] \in {NoPart, journal.id},
         journal.kind = "repo.rm" => Removing(journal.repo)',
         step = "shell" => journal.kind \in {"repo.new", "repo.init"},
         step \in {"move", "purge"} => journal.kind = "repo.rm",
         step = "purge" => Present(journal.repo)' = {},
         step \in {"shell", "clear"} /\ ~proc[p].recovering /\ journal.kind = "repo.init" =>
           Initialisable(journal.repo),
         step = "clear" => CarriedOut'
  PROVE  WorkspaceInv'
<1>1. "workspace.lock" \in sow
  BY Mine DEF Locked
<1>2. FilesTyped'
  BY DEF WorkspaceInv, Typed, FilesTyped
<1>3. Decided' /\ ~Undecided' /\ ~Undecided
  BY DEF Decided, Undecided
<1>4. FilesSound'
  <2>1. \A x \in Repo : journal.repo # x => Bare(x)' \/ Whole(x)'
    BY DEF WorkspaceInv, FilesSound, Bare, Whole
  <2>2. \A x \in Repo : \A q \in Part : parts'[x][q] = Foreign => q = "repository"
    <3> SUFFICES ASSUME NEW x \in Repo, NEW q \in Part, parts'[x][q] = Foreign  PROVE q = "repository"
      OBVIOUS
    <3>1. parts[x][q] = Foreign
      BY WorkspaceAssumption
    <3> QED
      BY <3>1 DEF WorkspaceInv, FilesSound
  <2>3. LockNeverLost'
    BY <1>1 DEF LockNeverLost
  <2> QED
    BY <1>3, <2>1, <2>2, <2>3 DEF WorkspaceInv, FilesSound
<1>5. JournalSound'
  BY <1>3 DEF WorkspaceInv, JournalSound
<1>6. step \in Step /\ step \in Deciding
  BY DEF Step, Deciding
<1>7. PICK s \in ProcRecord : s = [proc[p] EXCEPT !.at = step]
  BY <1>6, Gone
<1>8. s.at = step /\ s.cmd = proc[p].cmd /\ s.repo = proc[p].repo /\ s.recovering = proc[p].recovering
  BY <1>6, <1>7, Gone
<1>9. PICK h \in HeldRecord : h = held[p]
  BY Mine
<1>10. held' = [held EXCEPT ![p] = h] /\ proc' = [proc EXCEPT ![p] = s]
  BY <1>6, <1>7, <1>9, Gone DEF Go
<1>11. Locked(h, s)'
  BY <1>1, <1>8, <1>9 DEF Locked, Free, Deciding, Settling, InRepository
<1>12. Placed(h, s)'
  <2>1. Placed(h, s)
    BY <1>8, PlacedStill DEF InRepository, Deciding
  <2> QED
    BY <2>1 DEF Placed
<1>13. Working(h, s)'
  BY <1>8 DEF Working, Settling, InRepository
<1>14. step \in {"shell", "clear"} /\ ~s.recovering /\ journal.kind = "repo.init" => Initialisable(journal.repo)'
  <2>1. \A x \in config.repos : x \in Repo
    BY DEF WorkspaceInv, Typed, FilesTyped
  <2> QED
    BY <1>8, <2>1 DEF Initialisable, Present, Whole
<1>15. Carrying(s)'
  BY <1>3, <1>8, <1>14 DEF Carrying, Deciding
<1> QED
  BY <1>2, <1>4, <1>5, <1>9, <1>10, <1>11, <1>12, <1>13, <1>15, ExclusiveStep DEF Sound

\* What every step that carries out a decided journal starts from.
LEMMA CarryingOut ==
  ASSUME WorkspaceInv, NEW p \in Proc, proc[p].at \in {"shell", "move", "purge"}
  PROVE  /\ held[p].ws = "ex" /\ proc[p].at \in Deciding /\ journal # None /\ Decided
         /\ journal \in JournalRecord /\ journal.id \in 1 .. MaxOps /\ journal.repo \in Repo
         /\ parts \in [Repo -> [Part -> 0 .. MaxOps + 1]]
         /\ moved \subseteq (1 .. MaxOps) \X ({"dir"} \union DOMAIN Inside)
         /\ moved # {} => journal.kind = "repo.rm"
         /\ config.repos = journal.new
         /\ proc[p].at = "shell" => journal.kind \in {"repo.new", "repo.init"}
         /\ proc[p].at # "shell" => journal.kind = "repo.rm"
         /\ Go(p, proc[p].at) <=> UNCHANGED proc
<1>1. held[p].ws = "ex" /\ proc[p].at \in Deciding
  BY Mine DEF Locked, Deciding
<1>2. /\ journal # None /\ Decided
      /\ proc[p].at = "shell" => journal.kind \in {"repo.new", "repo.init"}
      /\ proc[p].at # "shell" => journal.kind = "repo.rm"
  BY <1>1, Mine DEF Carrying
<1>3. /\ journal \in JournalRecord /\ parts \in [Repo -> [Part -> 0 .. MaxOps + 1]]
      /\ moved \subseteq (1 .. MaxOps) \X ({"dir"} \union DOMAIN Inside)
  BY <1>2 DEF WorkspaceInv, Typed, FilesTyped
<1>4. journal.repo \in Repo /\ (moved # {} => journal.kind = "repo.rm")
  BY <1>2 DEF WorkspaceInv, JournalSound, FilesSound
<1>5. journal.id \in 1 .. MaxOps /\ config.repos = journal.new
  BY <1>2, <1>3 DEF JournalRecord, Decided
<1>6. [proc EXCEPT ![p].at = proc[p].at] = proc
  BY DEF WorkspaceInv, Typed, ProcRecord
<1> QED
  BY <1>1, <1>2, <1>3, <1>4, <1>5, <1>6 DEF Go

\* ensureRepositoryShell makes what is missing, and all of it is there at the end.
LEMMA ShellStep ==
  ASSUME WorkspaceInv, NEW p \in Proc, EnsureRepositoryShell(p)
  PROVE  WorkspaceInv'
<1> DEFINE r == journal.repo
           missing == {k \in 1 .. 6 : parts[r][Shell[k]] = NoPart}
           first == CHOOSE k \in missing : \A l \in missing : k <= l
<1>1. proc[p].at = "shell"
  BY DEF EnsureRepositoryShell, At
<1>2. \A q \in Part : parts[r][q] \in {NoPart, journal.id}
  BY <1>1, CarryingOut DEF WorkspaceInv, JournalSound
<1>3. journal.id # Foreign /\ NoPart # Foreign /\ journal.id # NoPart
  BY <1>1, CarryingOut, WorkspaceAssumption DEF Foreign, NoPart
<1>4. ~proc[p].recovering /\ journal.kind = "repo.init" => Initialisable(r)
  BY <1>1, Mine DEF Carrying
<1>5. UNCHANGED <<sow, config, journal, moved, nextId, held>>
  BY DEF EnsureRepositoryShell
<1>6. CASE missing = {}
  <2>1. Go(p, "clear") /\ UNCHANGED parts
    BY <1>6 DEF EnsureRepositoryShell
  <2>2. \A q \in Part : parts[r][q] = journal.id
    BY <1>2, <1>6 DEF Part
  <2>3. Whole(r)
    BY <1>3, <2>2, Names DEF Whole
  <2>4. r \in config.repos /\ moved = {}
    BY <1>1, CarryingOut DEF WorkspaceInv, JournalSound
  <2>5. CarriedOut'
    BY <1>5, <2>1, <2>3, <2>4 DEF CarriedOut, Whole
  <2> QED
    BY <1>1, <1>2, <1>3, <1>4, <1>5, <2>1, <2>5, CarryingOut, CarryStep
<1>7. CASE missing # {}
  <2>1. first \in missing
    BY <1>7, FirstMissing
  <2>2. parts' = [parts EXCEPT ![r][Shell[first]] = journal.id] /\ UNCHANGED proc
    BY <1>7 DEF EnsureRepositoryShell
  <2> HIDE DEF first
  <2>3. Shell[first] \in Part
    BY <2>1 DEF Part
  <2>4. /\ parts' \in [Repo -> [Part -> 0 .. MaxOps + 1]]
        /\ \A x \in Repo : x # r => parts'[x] = parts[x]
        /\ \A q \in Part : parts'[r][q] \in {NoPart, journal.id}
    BY <1>1, <1>2, <2>2, <2>3, CarryingOut, WorkspaceAssumption
  <2>5. Go(p, "shell")
    BY <1>1, <2>2, CarryingOut
  <2> QED
    BY <1>1, <1>3, <1>4, <1>5, <2>4, <2>5, CarryingOut, CarryStep
<1> QED
  BY <1>6, <1>7
\* Every part is moved with one path, and with no other.
LEMMA InsideOne ==
  /\ \A g \in DOMAIN Inside : g \in Part /\ g \in Inside[g] /\ Inside[g] \subseteq Part /\ g # "dir"
  /\ \A q \in Part : \E g \in DOMAIN Inside : q \in Inside[g]
  /\ \A g, k \in DOMAIN Inside : g # k => Inside[g] \cap Inside[k] = {}
BY Names

\* removeRepositoryOwnedPaths moves one path after the other.
LEMMA MoveStep ==
  ASSUME WorkspaceInv, NEW p \in Proc, MoveOwnedPath(p)
  PROVE  WorkspaceInv'
<1> DEFINE r == journal.repo
           order == RemovalOrder(r)
           left == {k \in 1 .. 4 : parts[r][order[k]] # NoPart}
           first == CHOOSE k \in left : \A l \in left : k <= l
<1>1. proc[p].at = "move"
  BY DEF MoveOwnedPath, At
<1>2. /\ held[p].ws = "ex" /\ proc[p].at \in Deciding /\ journal # None /\ Decided /\ journal.kind = "repo.rm"
      /\ journal.id \in 1 .. MaxOps /\ r \in Repo
      /\ parts \in [Repo -> [Part -> 0 .. MaxOps + 1]]
      /\ moved \subseteq (1 .. MaxOps) \X ({"dir"} \union DOMAIN Inside)
      /\ UNCHANGED <<sow, config, journal, nextId, held>>
  BY <1>1, CarryingOut DEF MoveOwnedPath
<1>3. Removing(r)
  BY <1>2 DEF WorkspaceInv, JournalSound
<1>4. CASE <<journal.id, "dir">> \notin moved
  <2>1. moved' = moved \union {<<journal.id, "dir">>} /\ UNCHANGED <<parts, proc>>
    BY <1>4 DEF MoveOwnedPath
  <2>2. \A g \in DOMAIN Inside : <<journal.id, g>> \in moved' <=> <<journal.id, g>> \in moved
    BY <2>1, InsideOne
  <2>3. Removing(r)'
    BY <1>2, <1>3, <2>1, <2>2 DEF Removing, Present
  <2>4. moved' \subseteq (1 .. MaxOps) \X ({"dir"} \union DOMAIN Inside)
    BY <1>2, <2>1
  <2>5. Go(p, "move")
    BY <1>1, <2>1, CarryingOut
  <2> QED
    BY <1>2, <1>3, <2>1, <2>3, <2>4, <2>5, CarryStep
<1>5. CASE <<journal.id, "dir">> \in moved /\ left = {}
  <2>1. Go(p, "purge") /\ UNCHANGED <<parts, moved>>
    BY <1>5 DEF MoveOwnedPath
  <2>2. \A g \in DOMAIN Inside : parts[r][g] = NoPart
    BY <1>5, Ordered
  <2>3. Present(r) = {}
    BY <1>3, <2>2, InsideOne DEF Removing, Present
  <2>4. Present(r)' = {} /\ Removing(r)'
    BY <1>2, <1>3, <2>1, <2>3 DEF Removing, Present
  <2> QED
    BY <1>2, <1>3, <2>1, <2>4, CarryStep
<1>6. CASE <<journal.id, "dir">> \in moved /\ left # {}
  <2>1. first \in left
    <3>1. left \subseteq 1 .. 6
      OBVIOUS
    <3> HIDE DEF left
    <3> QED
      BY <1>6, <3>1, FirstMissing
  <2>2. PICK part \in DOMAIN Inside : part = order[first]
    BY <2>1, Ordered
  <2>3. /\ parts' = [parts EXCEPT ![r] = [q \in Part |-> IF q \in Inside[part] THEN NoPart ELSE @[q]]]
        /\ moved' = moved \union {<<journal.id, part>>} /\ UNCHANGED proc
    BY <1>6, <2>2 DEF MoveOwnedPath
  <2> HIDE DEF first, left, order
  <2>4. /\ parts'[r] = [q \in Part |-> IF q \in Inside[part] THEN NoPart ELSE parts[r][q]]
        /\ \A x \in Repo : x # r => parts'[x] = parts[x]
        /\ parts' \in [Repo -> [Part -> 0 .. MaxOps + 1]]
    BY <1>2, <2>3, WorkspaceAssumption DEF NoPart
  <2>5. moved' \subseteq (1 .. MaxOps) \X ({"dir"} \union DOMAIN Inside)
    BY <1>2, <2>3
  <2>6. \A q \in Part : parts'[r][q] = Foreign => parts[r][q] = Foreign
    BY <2>4, WorkspaceAssumption DEF Foreign, NoPart
  <2>7. Removing(r)'
    <3>1. \A g \in DOMAIN Inside : \A q \in Inside[g] :
            parts'[r][q] = IF g = part THEN NoPart ELSE parts[r][q]
      BY <2>2, <2>4, InsideOne
    <3>2. \A g \in DOMAIN Inside : parts'[r][g] = IF g = part THEN NoPart ELSE parts[r][g]
      BY <3>1, InsideOne
    <3>3. \A g \in DOMAIN Inside : <<journal.id, g>> \in moved' <=> g = part \/ <<journal.id, g>> \in moved
      BY <2>3
    <3>4. Present(r)' # {} => Present(r) # {}
      BY <1>2, <2>4 DEF Present
    <3>5. \A g \in DOMAIN Inside : \A q \in Inside[g] : parts'[r][q] = NoPart <=> parts'[r][g] = NoPart
      BY <1>3, <3>1, <3>2 DEF Removing
    <3>6. \A g \in DOMAIN Inside : <<journal.id, g>> \in moved' => parts'[r][g] = NoPart
      BY <1>3, <3>2, <3>3 DEF Removing
    <3>7. Present(r)' # {} => \A g \in DOMAIN Inside : parts'[r][g] = NoPart => <<journal.id, g>> \in moved'
      BY <1>3, <3>2, <3>3, <3>4 DEF Removing
    <3> QED
      BY <1>2, <3>5, <3>6, <3>7 DEF Removing
  <2>8. Go(p, "move")
    BY <1>1, <2>3, CarryingOut
  <2> QED
    BY <1>2, <2>4, <2>5, <2>6, <2>7, <2>8, CarryStep
<1> QED
  BY <1>4, <1>5, <1>6

\* The recovery directory is emptied once nothing of the repository is left.
LEMMA PurgeStep ==
  ASSUME WorkspaceInv, NEW p \in Proc, PurgeRecovery(p)
  PROVE  WorkspaceInv'
<1> DEFINE r == journal.repo
<1>1. proc[p].at = "purge"
  BY DEF PurgeRecovery, At
<1>2. /\ held[p].ws = "ex" /\ proc[p].at \in Deciding /\ journal # None /\ Decided /\ journal.kind = "repo.rm"
      /\ r \in Repo /\ config.repos = journal.new
      /\ parts \in [Repo -> [Part -> 0 .. MaxOps + 1]]
      /\ moved \subseteq (1 .. MaxOps) \X ({"dir"} \union DOMAIN Inside)
      /\ UNCHANGED <<sow, config, journal, parts, nextId, held>>
  BY <1>1, CarryingOut DEF PurgeRecovery
<1>3. Present(r) = {} /\ Removing(r) /\ r \notin config.repos
  BY <1>1, <1>2, Mine DEF Carrying, WorkspaceInv, JournalSound
<1>4. Present(r)' = {}
  BY <1>2, <1>3 DEF Present
<1>5. ASSUME moved' \subseteq moved  PROVE Removing(r)'
  BY <1>2, <1>3, <1>4, <1>5 DEF Removing
<1>6. CASE moved = {}
  <2>1. Go(p, "clear") /\ moved' = {}
    BY <1>6 DEF PurgeRecovery
  <2>2. CarriedOut'
    BY <1>2, <1>3, <1>4, <2>1 DEF CarriedOut
  <2> QED
    BY <1>2, <1>5, <2>1, <2>2, CarryStep
<1>7. CASE moved # {}
  <2>1. moved' \subseteq moved /\ UNCHANGED proc
    BY <1>7 DEF PurgeRecovery
  <2>2. Go(p, "purge")
    BY <1>1, <2>1, CarryingOut
  <2> QED
    BY <1>2, <1>4, <1>5, <2>1, <2>2, CarryStep
<1> QED
  BY <1>6, <1>7

\* The journal goes, and with it the exception for its repository.
LEMMA ClearStep ==
  ASSUME WorkspaceInv, NEW p \in Proc, ClearJournal(p)
  PROVE  WorkspaceInv'
<1>1. proc[p].at = "clear" /\ held[p].ws = "ex" /\ journal # None /\ CarriedOut /\ "workspace.lock" \in sow
  BY Mine DEF ClearJournal, At, Locked, Carrying, Deciding
<1>2. journal' = None /\ UNCHANGED <<sow, config, parts, moved, nextId>>
  BY DEF ClearJournal
<1>3. FilesTyped' /\ JournalSound'
  BY <1>2 DEF WorkspaceInv, Typed, FilesTyped, JournalSound
<1>4. FilesSound'
  <2>1. \A x \in Repo : Bare(x) \/ Whole(x)
    <3>1. Bare(journal.repo) \/ Whole(journal.repo) \/ journal.repo = None
      BY <1>1 DEF CarriedOut, Bare, Present
    <3> QED
      BY <3>1, WorkspaceAssumption DEF WorkspaceInv, FilesSound
  <2>2. \A x \in Repo : Bare(x)' \/ Whole(x)'
    BY <1>2, <2>1 DEF Bare, Whole
  <2>3. LockNeverLost'
    BY <1>1, <1>2 DEF LockNeverLost
  <2> QED
    BY <1>1, <1>2, <2>2, <2>3 DEF WorkspaceInv, FilesSound, CarriedOut
<1>5. CASE proc[p].recovering
  <2>1. PICK s \in ProcRecord : s = [proc[p] EXCEPT !.recovering = FALSE, !.at = "command"]
    BY Mine DEF ProcRecord, Step, Settling
  <2>2. s.at = "command" /\ s.cmd = proc[p].cmd /\ s.repo = proc[p].repo
    BY <2>1, Mine DEF ProcRecord
  <2>3. PICK h \in HeldRecord : h = [held[p] EXCEPT !.repo = None, !.ino = 0]
    <3>1. 0 \in 0 .. MaxOps + 1
      BY WorkspaceAssumption
    <3> QED
      BY <3>1, Mine DEF HeldRecord
  <2>4. h.ws = "ex" /\ h.repo = None
    BY <1>1, <2>3, Mine DEF HeldRecord
  <2>5. held' = [held EXCEPT ![p] = h] /\ proc' = [proc EXCEPT ![p] = s]
    BY <1>5, <2>1, <2>3 DEF ClearJournal, WorkspaceInv, Typed, HeldRecord, ProcRecord
  <2>6. Locked(h, s)'
    BY <1>1, <1>2, <2>2, <2>4 DEF Locked, Free, Deciding, Settling, InRepository
  <2>7. Placed(h, s)
    BY <1>1, <2>2, PlacedStill DEF InRepository
  <2>8. Placed(h, s)'
    BY <2>7 DEF Placed
  <2>9. Working(h, s)' /\ Carrying(s)'
    BY <1>2, <2>2 DEF Working, Carrying, Settling, InRepository, Deciding
  <2> QED
    BY <1>1, <1>2, <1>3, <1>4, <2>4, <2>5, <2>6, <2>8, <2>9, ExclusiveStep DEF Sound
<1>6. CASE ~proc[p].recovering /\ journal.kind \in {"workspace.init", "repo.init"}
  <2>1. PICK step \in {"initCheck", "initLoop"} :
          Go(p, step) /\ (step = "initLoop" => journal.kind = "repo.init") /\ UNCHANGED held
    BY <1>6 DEF ClearJournal
  <2>2. step \in Step
    BY DEF Step, Settling
  <2>3. PICK s \in ProcRecord : s = [proc[p] EXCEPT !.at = step]
    BY <2>2, Gone
  <2>4. s.at = step /\ s.cmd = proc[p].cmd /\ s.repo = proc[p].repo
    BY <2>2, <2>3, Gone
  <2>5. PICK h \in HeldRecord : h = held[p]
    BY Mine
  <2>6. held' = [held EXCEPT ![p] = h] /\ proc' = [proc EXCEPT ![p] = s]
    BY <2>1, <2>2, <2>3, <2>5, Gone DEF Go
  <2>7. Locked(h, s)'
    BY <1>1, <1>2, <2>1, <2>4, <2>5 DEF Locked, Free, Deciding, Settling, InRepository
  <2>8. Placed(h, s)
    BY <1>1, <2>1, <2>4, PlacedStill DEF InRepository
  <2>9. Placed(h, s)'
    BY <2>8 DEF Placed
  <2>10. step = "initLoop" => Initialisable(None)'
    <3> SUFFICES ASSUME step = "initLoop"  PROVE Initialisable(None)'
      OBVIOUS
    <3>1. Initialisable(journal.repo)
      BY <1>1, <1>6, <2>1, Mine DEF Carrying
    <3>2. journal.repo \in config.repos => Whole(journal.repo) \/ journal.repo = None
      BY <1>1 DEF CarriedOut
    <3>3. Initialisable(None)
      BY <3>1, <3>2 DEF Initialisable
    <3> QED
      BY <1>2, <3>3 DEF Initialisable, Present, Whole
  <2>11. Working(h, s)' /\ Carrying(s)'
    BY <1>2, <2>1, <2>4, <2>10 DEF Working, Carrying, Settling, InRepository, Deciding
  <2> QED
    BY <1>1, <1>2, <1>3, <1>4, <2>5, <2>6, <2>7, <2>9, <2>11, ExclusiveStep DEF Sound
<1>7. CASE ~proc[p].recovering /\ journal.kind \notin {"workspace.init", "repo.init"}
  <2>1. Finish(p)
    BY <1>7 DEF ClearJournal
  <2>2. Unlocked.ws = "none" /\ Unlocked.repo = None
    BY DEF Unlocked
  <2>3. Sound(Unlocked, Idle)'
    BY DEF Sound, Locked, Placed, Working, Carrying, Unlocked, Idle, Free, Deciding, Settling, InRepository
  <2> QED
    BY <1>1, <1>2, <1>3, <1>4, <2>1, <2>2, <2>3, Rest, ExclusiveStep DEF Finish
<1> QED
  BY <1>5, <1>6, <1>7
-----------------------------------------------------------------------------
(* What goes on around *)

\* sow.yml is edited by hand while nobody holds the workspace exclusively.
LEMMA EditConfigStep ==
  ASSUME WorkspaceInv, NEW R \in SUBSET Repo, EditConfig(R)
  PROVE  WorkspaceInv'
<1>1. /\ journal = None /\ config' = [exists |-> TRUE, repos |-> R]
      /\ \A p \in Proc : held[p].ws # "ex"
      /\ UNCHANGED <<sow, journal, parts, moved, nextId, held, proc>>
  BY DEF EditConfig
<1>2. Typed' /\ Exclusion' /\ JournalSound'
  BY <1>1 DEF WorkspaceInv, Typed, FilesTyped, Exclusion, JournalSound
<1>3. FilesSound'
  <2>1. \A x \in Repo : Bare(x)' \/ Whole(x)'
    BY <1>1 DEF WorkspaceInv, FilesSound, Bare, Whole
  <2>2. LockNeverLost'
    BY <1>1 DEF WorkspaceInv, FilesSound, LockNeverLost, StateEntries
  <2>3. config'.exists /\ moved' = {}
    BY <1>1 DEF WorkspaceInv, FilesSound
  <2> QED
    BY <1>1, <2>1, <2>2, <2>3 DEF WorkspaceInv, FilesSound
<1>4. ASSUME NEW q \in Proc  PROVE Sound(held[q], proc[q])'
  <2>1. held[q].ws # "ex" /\ held'[q] = held[q] /\ proc'[q] = proc[q]
    BY <1>1
  <2>2. proc[q].at \notin Deciding \union Settling
    BY <2>1, Mine DEF Locked
  <2>3. ~(proc[q].at \in {"wantRepo", "ready"} /\ proc[q].cmd = "rm")
    BY <2>1, <2>2, Mine DEF Locked, InRepository, Settling
  <2>4. Locked(held[q], proc[q])' /\ Placed(held[q], proc[q])'
    BY <1>1, Mine DEF Locked, Placed
  <2>5. Working(held[q], proc[q])'
    BY <1>1, <2>1, <2>2, <2>3, Mine DEF Working, Settling
  <2>6. Carrying(proc[q])'
    BY <2>1, <2>2 DEF Carrying, Deciding
  <2> QED
    BY <2>4, <2>5, <2>6 DEF Sound
<1> QED
  BY <1>2, <1>3, <1>4 DEF WorkspaceInv

\* Someone makes a directory under the name of a repository.
LEMMA MakeDirectoryStep ==
  ASSUME WorkspaceInv, NEW r \in Repo, MakeDirectory(r)
  PROVE  WorkspaceInv'
<1>1. /\ journal = None /\ Present(r) = {}
      /\ \A p \in Proc : held[p].ws # "ex"
      /\ parts' = [parts EXCEPT ![r].repository = Foreign]
      /\ UNCHANGED <<sow, config, journal, moved, nextId, held, proc>>
  BY DEF MakeDirectory
<1>2. parts \in [Repo -> [Part -> 0 .. MaxOps + 1]] /\ Foreign \in 0 .. MaxOps + 1
  BY WorkspaceAssumption DEF WorkspaceInv, Typed, FilesTyped, Foreign
<1>3. /\ parts' \in [Repo -> [Part -> 0 .. MaxOps + 1]]
      /\ \A x \in Repo \ {r} : parts'[x] = parts[x]
      /\ \A q \in Part \ {"repository"} : parts'[r][q] = parts[r][q]
      /\ parts'[r]["repository"] = Foreign
  BY <1>1, <1>2, Names
<1>4. Typed' /\ Exclusion' /\ JournalSound'
  BY <1>1, <1>3 DEF WorkspaceInv, Typed, FilesTyped, Exclusion, JournalSound
<1>5. FilesSound'
  <2>1. \A q \in Part : parts[r][q] = NoPart
    BY <1>1 DEF Present
  <2>2. Bare(r)'
    BY <1>3, <2>1, Names DEF Bare
  <2>3. \A x \in Repo \ {r} : Bare(x)' \/ Whole(x)'
    BY <1>1, <1>3 DEF WorkspaceInv, FilesSound, Bare, Whole
  <2>4. \A x \in Repo : \A q \in Part : parts'[x][q] = Foreign => q = "repository"
    BY <1>3 DEF WorkspaceInv, FilesSound
  <2>5. StateEntries' = StateEntries
    <3>1. \A x \in Repo : parts'[x].private = parts[x].private /\ parts'[x].db = parts[x].db
      BY <1>3, Names
    <3> QED
      BY <3>1 DEF StateEntries
  <2>6. LockNeverLost'
    BY <1>1, <2>5 DEF WorkspaceInv, FilesSound, LockNeverLost
  <2> QED
    BY <1>1, <2>2, <2>3, <2>4, <2>6 DEF WorkspaceInv, FilesSound
<1>6. ASSUME NEW q \in Proc  PROVE Sound(held[q], proc[q])'
  <2>1. held[q].ws # "ex" /\ held'[q] = held[q] /\ proc'[q] = proc[q]
    BY <1>1
  <2>2. proc[q].at \notin Deciding \union Settling
    BY <2>1, Mine DEF Locked
  <2>3. \A x \in Repo : parts'[x].lock = parts[x].lock
    BY <1>3, Names
  <2>4. Locked(held[q], proc[q])' /\ Placed(held[q], proc[q])'
    BY <1>1, Mine DEF Locked, Placed
  <2>5. Working(held[q], proc[q])'
    <3>1. proc[q].at \in {"wantRepo", "inside", "ready"} => proc[q].repo \in Repo
      BY Mine DEF Placed, InRepository
    <3> QED
      BY <1>1, <2>1, <2>2, <2>3, <3>1, Mine DEF Working, Settling
  <2>6. Carrying(proc[q])'
    BY <2>1, <2>2 DEF Carrying, Deciding
  <2> QED
    BY <2>4, <2>5, <2>6 DEF Sound
<1> QED
  BY <1>4, <1>5, <1>6 DEF WorkspaceInv

-----------------------------------------------------------------------------
(* The theorems *)

\* The invariant holds in a workspace that is not there yet.
LEMMA InitInv == Init => WorkspaceInv
<1> SUFFICES ASSUME Init  PROVE WorkspaceInv
  OBVIOUS
<1>1. \A r \in Repo : \A q \in Part : parts[r][q] = NoPart
  BY DEF Init
<1>2. Typed
  <2>1. [q \in Part |-> NoPart] \in [Part -> 0 .. MaxOps + 1]
    BY WorkspaceAssumption DEF NoPart
  <2>2. parts \in [Repo -> [Part -> 0 .. MaxOps + 1]]
    BY <2>1 DEF Init
  <2>3. nextId \in 1 .. MaxOps + 1
    BY WorkspaceAssumption DEF Init
  <2> QED
    BY <2>2, <2>3, Rest DEF Init, Typed, FilesTyped
<1>3. FilesSound
  <2>1. NoPart # Foreign
    BY WorkspaceAssumption DEF NoPart, Foreign
  <2>2. \A r \in Repo : Bare(r)
    BY <1>1 DEF Bare
  <2>3. LockNeverLost
    BY <1>1, Names DEF Init, LockNeverLost, StateEntries
  <2> QED
    BY <1>1, <2>1, <2>2, <2>3 DEF Init, FilesSound
<1>4. Exclusion /\ JournalSound
  BY DEF Init, Exclusion, Unlocked, JournalSound
<1>5. \A p \in Proc : Sound(held[p], proc[p])
  BY RestSound DEF Init
<1> QED
  BY <1>2, <1>3, <1>4, <1>5 DEF WorkspaceInv

\* Every step of every process keeps the invariant.
LEMMA StepInv == WorkspaceInv /\ [Next]_vars => WorkspaceInv'
<1> SUFFICES ASSUME WorkspaceInv, [Next]_vars  PROVE WorkspaceInv'
  OBVIOUS
<1>1. ASSUME NEW p \in Proc, Command(p)  PROVE WorkspaceInv'
  <2>1. CASE Boot(p) \/ EnsureWorkspaceLock(p) \/ EnsureStateDirectories(p)
    BY <2>1, LayoutStep
  <2>2. CASE LockWorkspace(p) \/ ShareWorkspace(p)
    BY <2>2, WorkspaceLockStep
  <2>3. CASE Inspect(p)
    BY <2>3, InspectStep
  <2>4. CASE OpenRepositoryLock(p) \/ LockRepository(p)
    BY <2>4, RepositoryLockStep
  <2>5. CASE Leave(p)
    BY <2>5, LeaveStep
  <2>6. CASE RecoverNone(p)
    BY <2>6, RecoverNoneStep
  <2>7. CASE RecoverJournal(p)
    BY <2>7, RecoverJournalStep
  <2>8. CASE RecoverRemovalLock(p)
    BY <2>8, RecoverRemovalLockStep
  <2>9. CASE RemoveRepository(p) \/ InitCheck(p) \/ (InitWorkspace(p) /\ config.exists)
    BY <2>9, CommandStep
  <2>10. CASE \/ NewRepository(p) \/ PlanRemoval(p) \/ (InitWorkspace(p) /\ ~config.exists)
              \/ (\E r \in Repo : InitRepository(p, r))
    BY <2>10, PlanStep
  <2>11. CASE InitDists(p) \/ NextDists(p) \/ DeclaredDists(p)
    BY <2>11, DistsStep
  <2>12. CASE Restart(p)
    BY <2>12, RestartStep
  <2>13. CASE WriteConfig(p)
    BY <2>13, WriteConfigStep
  <2>14. CASE MarkApplied(p)
    BY <2>14, MarkAppliedStep
  <2>15. CASE EnsureRepositoryShell(p)
    BY <2>15, ShellStep
  <2>16. CASE MoveOwnedPath(p)
    BY <2>16, MoveStep
  <2>17. CASE PurgeRecovery(p)
    BY <2>17, PurgeStep
  <2>18. CASE ClearJournal(p)
    BY <2>18, ClearStep
  <2>19. CASE Refuse(p)
    BY <2>19, FinishStep DEF Refuse
  <2> QED
    BY <1>1, <2>1, <2>2, <2>3, <2>4, <2>5, <2>6, <2>7, <2>8, <2>9, <2>10, <2>11, <2>12, <2>13, <2>14, <2>15, <2>16,
       <2>17, <2>18, <2>19 DEF Command
<1>2. ASSUME NEW p \in Proc, Stop(p)  PROVE WorkspaceInv'
  BY <1>2, FinishStep DEF Stop
<1>3. CASE UNCHANGED vars
  BY <1>3 DEF vars, WorkspaceInv, Typed, FilesTyped, Exclusion, FilesSound, JournalSound, Sound, Locked, Placed,
              Working, Carrying, Initialisable, CarriedOut, Undecided, Decided, Present, Whole, Bare, Removing, LockNeverLost,
              StateEntries
<1> QED
  BY <1>1, <1>2, <1>3, BeginStep, EditConfigStep, MakeDirectoryStep DEF Next

\* Locks, journal, sow.yml and the files of the repositories agree at every
\* step of every number of processes, whatever is killed.
THEOREM Invariance == Spec => []WorkspaceInv
BY InitInv, StepInv, PTL DEF Spec

\* Racing and interrupted init, repo new and repo rm leave whole repositories
\* only, a workspace whose lock is there, and a journal that can be recovered.
THEOREM WorkspaceSafeHolds == Spec => []WorkspaceSafe
<1>1. ASSUME WorkspaceInv  PROVE WorkspaceSafe
  <2>1. TypeOK
    <3>1. journal # None => Undecided \/ Decided
      BY <1>1 DEF WorkspaceInv, JournalSound
    <3>2. \A p \in Proc : held[p].ws \in {"none", "sh", "ex"}
      BY <1>1, Mine DEF HeldRecord
    <3> QED
      BY <1>1, <3>1, <3>2 DEF WorkspaceInv, Typed, FilesTyped, TypeOK
  <2>2. AllOrNothing
    BY <1>1 DEF WorkspaceInv, FilesSound, Bare, Whole, AllOrNothing
  <2>3. LockNeverLost
    BY <1>1 DEF WorkspaceInv, FilesSound
  <2>4. JournalRecoverable
    <3> SUFFICES ASSUME journal # None  PROVE JournalRecoverable
      BY DEF JournalRecoverable
    <3>1. CASE journal.kind = "repo.rm" /\ Decided
      <4>1. Removing(journal.repo)
        BY <1>1, <3>1 DEF WorkspaceInv, JournalSound
      <4> QED
        BY <4>1, Names DEF Removing, JournalRecoverable, RemovalPathsRemain
    <3>2. CASE ~(journal.kind = "repo.rm" /\ Decided)
      BY <1>1, <3>2 DEF WorkspaceInv, FilesSound, JournalRecoverable
    <3> QED
      BY <3>1, <3>2
  <2> QED
    BY <2>1, <2>2, <2>3, <2>4 DEF WorkspaceSafe
<1> QED
  BY <1>1, Invariance, PTL

\* Whoever works in a repository is alone there and holds the lock that the name
\* still stands for.
THEOREM WorkersExclusiveHolds == Spec => []WorkersExclusive
<1>1. ASSUME WorkspaceInv  PROVE WorkersExclusive
  <2> SUFFICES ASSUME NEW p \in Proc, At(p, "inside")
               PROVE  /\ journal = None
                      /\ Complete(proc[p].repo)
                      /\ held[p].repo = proc[p].repo /\ held[p].ino = parts[proc[p].repo].lock
                      /\ \A q \in Proc \ {p} : At(q, "inside") => proc[q].repo # proc[p].repo
    BY DEF WorkersExclusive
  <2>1. \A q \in Proc : At(q, "inside") =>
          /\ journal = None /\ proc[q].repo \in Repo /\ parts[proc[q].repo].lock # NoPart
          /\ held[q].repo = proc[q].repo /\ held[q].ino = parts[proc[q].repo].lock
    BY <1>1, Mine DEF At, Placed, Working, InRepository
  <2>2. Complete(proc[p].repo)
    BY <1>1, <2>1, CompleteWhole
  <2>3. \A q \in Proc \ {p} : At(q, "inside") => proc[q].repo # proc[p].repo
    BY <1>1, <2>1, WorkspaceAssumption DEF WorkspaceInv, Exclusion
  <2> QED
    BY <2>1, <2>2, <2>3
<1> QED
  BY <1>1, Invariance, PTL

\* A journal is closed only when what sow.yml decided has been carried out, or
\* nothing was decided and nothing was done.
THEOREM ClearedMeansDoneHolds == Spec => ClearedMeansDone
<1> DEFINE Done == (journal # None /\ journal' = None /\ journal.repo # None) =>
                     IF journal.repo \in config.repos THEN Complete(journal.repo)
                     ELSE Present(journal.repo) = {} /\ moved = {}
<1>1. ASSUME WorkspaceInv, [Next]_vars  PROVE Done
  <2> SUFFICES ASSUME journal # None, journal' = None, journal.repo # None  PROVE Done
    OBVIOUS
  <2>1. PICK p \in Proc : ClearJournal(p)
    <3>1. ASSUME NEW p \in Proc, Command(p), ~ClearJournal(p)  PROVE FALSE
      <4>1. MarkApplied(p) => FALSE
        <5> SUFFICES ASSUME MarkApplied(p)  PROVE FALSE
          OBVIOUS
        <5>1. [journal EXCEPT !.phase = "applied"] \in JournalRecord
          BY <1>1 DEF WorkspaceInv, Typed, FilesTyped, JournalRecord
        <5> QED
          BY <5>1, NoneAssumption DEF MarkApplied
      <4>2. UNCHANGED journal => FALSE
        OBVIOUS
      <4>3. ~(NewRepository(p) \/ InitWorkspace(p) \/ PlanRemoval(p) \/ \E r \in Repo : InitRepository(p, r))
        <5>1. proc[p].at \in {"command", "ready", "initLoop"} => journal = None
          BY <1>1, Mine DEF Working, Settling
        <5> QED
          BY <5>1 DEF NewRepository, InitWorkspace, PlanRemoval, InitRepository, At
      <4> QED
        BY <3>1, <4>1, <4>2, <4>3
           DEF Command, files, Boot, EnsureWorkspaceLock, EnsureStateDirectories, LockWorkspace, ShareWorkspace,
               Inspect, OpenRepositoryLock, LockRepository, Leave, RecoverNone, RecoverJournal, RecoverRemovalLock,
               RemoveRepository, InitCheck, InitDists, NextDists, DeclaredDists, Restart, WriteConfig,
               EnsureRepositoryShell, MoveOwnedPath, PurgeRecovery, Refuse
    <3>2. ASSUME NEW p \in Proc, BeginAny(p) \/ Stop(p)  PROVE FALSE
      BY <3>2 DEF BeginAny, Begin, Stop, files
    <3> QED
      BY <1>1, <3>1, <3>2 DEF Next, vars, EditConfig, MakeDirectory
  <2>2. CarriedOut
    BY <1>1, <2>1, Mine DEF ClearJournal, At, Carrying
  <2> QED
    BY <2>2 DEF CarriedOut, Whole, Complete, Present
<1> QED
  BY <1>1, Invariance, PTL DEF Spec, ClearedMeansDone
=============================================================================
