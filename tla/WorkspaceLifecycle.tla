------------------------- MODULE WorkspaceLifecycle -------------------------
(***************************************************************************)
(* `init`, `repo new`, `repo rm` and the locks every command takes.        *)
(*                                                                         *)
(* Commands run in several processes at once.  Those that rewrite sow.yml  *)
(* or create and remove repositories hold the workspace lock exclusively;  *)
(* those that work inside a repository hold it shared, and the             *)
(* repository's own lock exclusively.  A lifecycle command journals the    *)
(* configuration before and after, renames the new one into place (which   *)
(* decides the operation), and then creates or removes the repository's    *)
(* files.  Whoever next gets the workspace lock finishes what a stopped    *)
(* process left.                                                           *)
(*                                                                         *)
(* A lock is held on an inode, not on a name: a process that has opened    *)
(* the lock file of a repository keeps its inode while the name goes.      *)
(***************************************************************************)
EXTENDS Naturals, FiniteSets

CONSTANTS Proc,      \* concurrent processes
          Repo,      \* repository names
          LateName,  \* names that sort after "repo-locks"
          None,      \* no journal, no repository
          MaxOps     \* bound on journaled operations

ASSUME WorkspaceAssumption ==
  /\ LateName \subseteq Repo
  /\ MaxOps \in Nat
  /\ None \notin Repo

VARIABLES sow,      \* .sow and the control entries in it
          config,   \* sow.yml: whether it is there, and the repositories it names
          journal,  \* .sow/workspace-ops/active.json
          parts,    \* the files of each repository, by the operation that made them
          moved,    \* .sow/workspace-ops/recovery-<id> and what was moved there
          nextId,   \* operation ids
          held,     \* the locks each process holds
          proc      \* what each process is doing

vars == <<sow, config, journal, parts, moved, nextId, held, proc>>
files == <<sow, config, journal, parts, moved, nextId>>

-----------------------------------------------------------------------------
(* Files and locks *)

\* In the order in which ensureRepositoryShell makes them.
Shell == <<"repository", "pool", "private", "stage", "lock", "db">>

Part == {Shell[k] : k \in 1 .. 6}

NoPart == 0

\* A directory that was there before the repository.
Foreign == MaxOps + 1

Inside == [repository |-> {"repository", "pool"}, private |-> {"private", "stage"},
           lock |-> {"lock"}, db |-> {"db"}]

\* removeRepositoryOwnedPaths sorts the paths it moves.
RemovalOrder(r) ==
  IF r \in LateName THEN <<"lock", "private", "db", "repository">>
                    ELSE <<"private", "db", "lock", "repository">>

Present(r) == {q \in Part : parts[r][q] # NoPart}

\* repositoryShellComplete
Complete(r) == Present(r) = Part

\* What lies in .sow beside the lock and the two control directories.
StateEntries == {r \in Repo : parts[r].private # NoPart \/ parts[r].db # NoPart}

Unlocked == [ws |-> "none", repo |-> None, ino |-> 0]

Idle == [at |-> "idle", cmd |-> "none", repo |-> None, recovering |-> FALSE, todo |-> {}]

At(p, step) == proc[p].at = step

Go(p, step) == proc' = [proc EXCEPT ![p].at = step]

\* waitFileLock, for the workspace lock and for the inode of a repository lock.
WorkspaceFree(p, mode) ==
  \A q \in Proc \ {p} : held[q].ws = "none" \/ (mode = "sh" /\ held[q].ws = "sh")

InodeFree(p, r, ino) == \A q \in Proc \ {p} : held[q].repo # r \/ held[q].ino # ino

Finish(p) ==
  /\ held' = [held EXCEPT ![p] = Unlocked]
  /\ proc' = [proc EXCEPT ![p] = Idle]

-----------------------------------------------------------------------------
(* A command begins *)

\* config.Discover: every command but init needs a sow.yml.
Begin(p, cmd, r) ==
  /\ At(p, "idle")
  /\ cmd # "init" => config.exists /\ "workspace.lock" \in sow
  /\ proc' = [proc EXCEPT ![p] = [Idle EXCEPT
       !.cmd = cmd, !.repo = IF cmd = "init" THEN None ELSE r,
       !.at = CASE cmd = "init" -> "boot" [] cmd = "write" -> "wantSh" [] OTHER -> "wantEx"]]
  /\ UNCHANGED <<files, held>>

\* Init makes .sow unless a configured repository would adopt what is there.
Boot(p) ==
  /\ At(p, "boot")
  /\ sow = {} => \A r \in config.repos : parts[r].db # NoPart \/ Present(r) = {}
  /\ sow' = sow \union {"dir"}
  /\ Go(p, "lockfile")
  /\ UNCHANGED <<config, journal, parts, moved, nextId, held>>

\* ensureWorkspaceLock: the lock file is made only in an empty .sow, and while
\* it is the only entry the control directories are made without holding it.
EnsureWorkspaceLock(p) ==
  /\ At(p, "lockfile")
  /\ "workspace.lock" \in sow \/ (sow = {"dir"} /\ StateEntries = {})
  /\ sow' = sow \union {"workspace.lock"}
  /\ Go(p, IF sow \subseteq {"dir", "workspace.lock"} /\ StateEntries = {} THEN "layout" ELSE "wantEx")
  /\ UNCHANGED <<config, journal, parts, moved, nextId, held>>

\* ensureStateDirectories, one directory after the other.
EnsureStateDirectories(p) ==
  /\ At(p, "layout")
  /\ LET next == IF "workspace-ops" \notin sow THEN "workspace-ops" ELSE "repo-locks"
     IN /\ sow' = sow \union {next}
        /\ Go(p, IF next = "workspace-ops" THEN "layout"
                 ELSE IF held[p].ws = "ex" THEN "recover" ELSE "wantEx")
  /\ UNCHANGED <<config, journal, parts, moved, nextId, held>>

\* acquireFileLock on workspace.lock
LockWorkspace(p) ==
  /\ At(p, "wantEx")
  /\ "workspace.lock" \in sow
  /\ WorkspaceFree(p, "ex")
  /\ held' = [held EXCEPT ![p].ws = "ex"]
  /\ proc' = [proc EXCEPT ![p].recovering = TRUE,
                          ![p].at = IF proc[p].cmd = "init" THEN "layout" ELSE "recover"]
  /\ UNCHANGED files

\* acquireSelectedRepositoryLocks: shared first ...
ShareWorkspace(p) ==
  /\ At(p, "wantSh")
  /\ WorkspaceFree(p, "sh")
  /\ held' = [held EXCEPT ![p].ws = "sh"]
  /\ Go(p, "inspect")
  /\ UNCHANGED files

\* Mutant: a journal is left to the commands that changed sow.yml.
InspectPassing(p) ==
  /\ At(p, "inspect")
  /\ Go(p, "open")
  /\ UNCHANGED <<files, held>>

\* ... and exclusively when there is a journal to recover.
Inspect(p) ==
  /\ At(p, "inspect")
  /\ IF journal # None
     THEN held' = [held EXCEPT ![p] = Unlocked] /\ Go(p, "wantEx")
     ELSE Go(p, "open") /\ UNCHANGED held
  /\ UNCHANGED files

\* openExistingLockFile: the inode the name has now.
OpenRepositoryLock(p) ==
  /\ At(p, "open")
  /\ proc[p].repo \in config.repos
  /\ parts[proc[p].repo].lock # NoPart
  /\ held' = [held EXCEPT ![p].ino = parts[proc[p].repo].lock]
  /\ Go(p, "wantRepo")
  /\ UNCHANGED files

\* Mutant: the workspace is given back before the repository's lock is there.
LockRepositoryAlone(p) ==
  \/ /\ At(p, "wantRepo")
     /\ held[p].ws = "sh"
     /\ held' = [held EXCEPT ![p].ws = "none"]
     /\ UNCHANGED <<files, proc>>
  \/ /\ At(p, "wantRepo")
     /\ held[p].ws # "sh"
     /\ InodeFree(p, proc[p].repo, held[p].ino)
     /\ held' = [held EXCEPT ![p].repo = proc[p].repo]
     /\ Go(p, IF proc[p].cmd = "rm" THEN "ready" ELSE "inside")
     /\ UNCHANGED files

LockRepository(p) ==
  /\ At(p, "wantRepo")
  /\ InodeFree(p, proc[p].repo, held[p].ino)
  /\ held' = [held EXCEPT ![p].repo = proc[p].repo]
  /\ Go(p, IF proc[p].cmd = "rm" THEN "ready" ELSE "inside")
  /\ UNCHANGED files

\* The command has done its work in the repository.
Leave(p) ==
  /\ At(p, "inside")
  /\ IF proc[p].cmd = "dists"
     THEN /\ held' = [held EXCEPT ![p] = Unlocked]
          /\ proc' = [proc EXCEPT ![p].at = "dists", ![p].todo = @ \ {proc[p].repo}]
     ELSE Finish(p)
  /\ UNCHANGED files

-----------------------------------------------------------------------------
(* recoverWorkspaceOperation *)

RecoverNone(p) ==
  /\ At(p, "recover")
  /\ journal = None
  /\ proc' = [proc EXCEPT ![p].recovering = FALSE, ![p].at = "command"]
  /\ UNCHANGED <<files, held>>

\* A workspace is initialised once its sow.yml is there; any other operation is
\* decided by the rename of sow.yml.
Undecided ==
  IF journal.kind = "workspace.init" THEN ~config.exists /\ journal.phase = "planned"
  ELSE config.repos = journal.old /\ journal.kind # "repo.init"

Decided == config.exists /\ config.repos = journal.new /\ ~Undecided

\* Mutant: a planned journal is rolled back whatever sow.yml says.
RecoverJournalByPhase(p) ==
  /\ At(p, "recover")
  /\ journal # None
  /\ \/ (journal.phase = "planned" /\ Go(p, "clear"))
     \/ /\ journal.phase = "applied" /\ Decided
        /\ Go(p, CASE journal.kind = "workspace.init" -> "clear"
                   [] journal.kind = "repo.rm" -> "rmlock"
                   [] OTHER -> "shell")
  /\ UNCHANGED <<files, held>>

RecoverJournal(p) ==
  /\ At(p, "recover")
  /\ journal # None
  /\ \/ Undecided /\ Go(p, "clear")
     \/ /\ Decided
        /\ Go(p, CASE journal.kind = "workspace.init" -> "clear"
                   [] journal.kind = "repo.rm" -> "rmlock"
                   [] OTHER -> "shell")
  /\ UNCHANGED <<files, held>>

\* repositoryRemovalPathsRemain
RemovalPathsRemain(r) == Present(r) \ {"lock"} # {}

\* A removal goes on under the repository's lock, or without it once the lock
\* file itself has been moved.
RecoverRemovalLock(p) ==
  /\ At(p, "rmlock")
  /\ LET r == journal.repo
     IN IF parts[r].lock # NoPart
        THEN /\ InodeFree(p, r, parts[r].lock)
             /\ held' = [held EXCEPT ![p].repo = r, ![p].ino = parts[r].lock]
        ELSE /\ <<journal.id, "lock">> \in moved \/ ~RemovalPathsRemain(r)
             /\ UNCHANGED held
  /\ Go(p, "move")
  /\ UNCHANGED files

-----------------------------------------------------------------------------
(* The steps of a lifecycle operation *)

\* checkConfigAtRoot: nothing in .sow without an owner, no repository half there,
\* and no database in use.
ConfigChecked(p) ==
  /\ journal = None
  /\ StateEntries \subseteq config.repos
  /\ \A r \in config.repos :
       IF parts[r].db = NoPart THEN Present(r) \subseteq {"lock"}
       ELSE Complete(r) /\ InodeFree(p, r, parts[r].lock)

\* persistWorkspaceJournal: the operation with sow.yml as it is and as it is to be.
Journal(p, kind, r, new, step) ==
  /\ nextId <= MaxOps
  /\ nextId' = nextId + 1
  /\ journal' = [id |-> nextId, kind |-> kind, repo |-> r, phase |-> "planned",
                 old |-> config.repos, new |-> new]
  /\ Go(p, step)
  /\ UNCHANGED <<sow, config, parts, moved, held>>

\* NewRepository adopts nothing.
NewRepository(p) ==
  /\ At(p, "command") /\ proc[p].cmd = "new"
  /\ ConfigChecked(p)
  /\ proc[p].repo \notin config.repos
  /\ Present(proc[p].repo) = {}
  /\ Journal(p, "repo.new", proc[p].repo, config.repos \union {proc[p].repo}, "config")

\* RemoveRepository locks the repository before it plans ...
RemoveRepository(p) ==
  /\ At(p, "command") /\ proc[p].cmd = "rm"
  /\ ConfigChecked(p)
  /\ proc[p].repo \in config.repos
  /\ Go(p, "open")
  /\ UNCHANGED <<files, held>>

\* ... and requires it to be complete and at rest.
PlanRemoval(p) ==
  /\ At(p, "ready")
  /\ Complete(proc[p].repo)
  /\ Journal(p, "repo.rm", proc[p].repo, config.repos \ {proc[p].repo}, "config")

InitWorkspace(p) ==
  /\ At(p, "command") /\ proc[p].cmd = "init"
  /\ IF config.exists THEN Go(p, "initCheck") /\ UNCHANGED <<files, held>>
     ELSE Journal(p, "workspace.init", None, {}, "config")

\* recoverInitializedRepositories and checkConfigAtRoot
InitCheck(p) ==
  /\ At(p, "initCheck")
  /\ ConfigChecked(p)
  /\ Go(p, "initLoop")
  /\ UNCHANGED <<files, held>>

InitRepository(p, r) ==
  /\ At(p, "initLoop")
  /\ r \in config.repos /\ ~Complete(r)
  /\ Journal(p, "repo.init", r, config.repos, "shell")

\* The workspace lock is released before the dists of each repository are
\* initialised under both locks.
InitDists(p) ==
  /\ At(p, "initLoop")
  /\ \A r \in config.repos : Complete(r)
  /\ held' = [held EXCEPT ![p] = Unlocked]
  /\ proc' = [proc EXCEPT ![p] = [Idle EXCEPT !.at = "dists", !.cmd = "dists", !.todo = config.repos]]
  /\ UNCHANGED files

NextDists(p) ==
  /\ At(p, "dists")
  /\ IF proc[p].todo = {} THEN Finish(p)
     ELSE /\ \E r \in proc[p].todo : proc' = [proc EXCEPT ![p].repo = r, ![p].at = "wantEx"]
          /\ UNCHANGED held
  /\ UNCHANGED files

\* initializeDeclaredDists: the repository may have been removed meanwhile.
DeclaredDists(p) ==
  /\ At(p, "command") /\ proc[p].cmd = "dists"
  /\ IF proc[p].repo \in config.repos THEN Go(p, "open") /\ UNCHANGED held
     ELSE /\ held' = [held EXCEPT ![p] = Unlocked]
          /\ proc' = [proc EXCEPT ![p].at = "dists", ![p].todo = @ \ {proc[p].repo}]
  /\ UNCHANGED files

\* A command in a repository recovered the workspace and starts again.
Restart(p) ==
  /\ At(p, "command") /\ proc[p].cmd = "write"
  /\ held' = [held EXCEPT ![p] = Unlocked]
  /\ Go(p, "wantSh")
  /\ UNCHANGED files

\* writeAtomic of sow.yml: the decision.
WriteConfig(p) ==
  /\ At(p, "config")
  /\ config' = [exists |-> TRUE, repos |-> journal.new]
  /\ Go(p, "applied")
  /\ UNCHANGED <<sow, journal, parts, moved, nextId, held>>

AfterConfig ==
  CASE journal.kind = "workspace.init" -> "clear"
    [] journal.kind = "repo.rm" -> "move"
    [] OTHER -> "shell"

MarkApplied(p) ==
  /\ At(p, "applied")
  /\ journal' = [journal EXCEPT !.phase = "applied"]
  /\ Go(p, AfterConfig)
  /\ UNCHANGED <<sow, config, parts, moved, nextId, held>>

\* ensureRepositoryShell: what is missing, in order.
EnsureRepositoryShell(p) ==
  /\ At(p, "shell")
  /\ LET r == journal.repo
         missing == {k \in 1 .. 6 : parts[r][Shell[k]] = NoPart}
     IN IF missing = {} THEN Go(p, "clear") /\ UNCHANGED parts
        ELSE /\ LET k == CHOOSE k \in missing : \A l \in missing : k <= l
                IN parts' = [parts EXCEPT ![r][Shell[k]] = journal.id]
             /\ UNCHANGED proc
  /\ UNCHANGED <<sow, config, journal, moved, nextId, held>>

\* Mutant: the lock file is deleted instead of moved.
MoveOwnedPathUnlinking(p) ==
  /\ At(p, "move")
  /\ LET r == journal.repo
         order == RemovalOrder(r)
         left == {k \in 1 .. 4 : parts[r][order[k]] # NoPart}
     IN IF left = {} THEN Go(p, "purge") /\ UNCHANGED <<parts, moved>>
        ELSE LET part == order[CHOOSE k \in left : \A l \in left : k <= l]
             IN /\ parts' = [parts EXCEPT ![r] = [q \in Part |-> IF q \in Inside[part] THEN NoPart ELSE @[q]]]
                /\ moved' = moved \union IF part = "lock" THEN {} ELSE {<<journal.id, part>>}
                /\ UNCHANGED proc
  /\ UNCHANGED <<sow, config, journal, nextId, held>>

\* removeRepositoryOwnedPaths: each path to the recovery directory ...
MoveOwnedPath(p) ==
  /\ At(p, "move")
  /\ LET r == journal.repo
         order == RemovalOrder(r)
         left == {k \in 1 .. 4 : parts[r][order[k]] # NoPart}
     IN IF <<journal.id, "dir">> \notin moved
        THEN moved' = moved \union {<<journal.id, "dir">>} /\ UNCHANGED <<parts, proc>>
        ELSE IF left = {} THEN Go(p, "purge") /\ UNCHANGED <<parts, moved>>
        ELSE LET part == order[CHOOSE k \in left : \A l \in left : k <= l]
             IN /\ <<journal.id, part>> \notin moved
                /\ parts' = [parts EXCEPT ![r] = [q \in Part |-> IF q \in Inside[part] THEN NoPart ELSE @[q]]]
                /\ moved' = moved \union {<<journal.id, part>>}
                /\ UNCHANGED proc
  /\ UNCHANGED <<sow, config, journal, nextId, held>>

\* ... which is then emptied and removed.
PurgeRecovery(p) ==
  /\ At(p, "purge")
  /\ IF moved = {} THEN Go(p, "clear") /\ UNCHANGED moved
     ELSE /\ \E x \in moved : (x[2] = "dir" => moved = {x}) /\ moved' = moved \ {x}
          /\ UNCHANGED proc
  /\ UNCHANGED <<sow, config, journal, parts, nextId, held>>

\* clearWorkspaceJournal, and on with the command.
ClearJournal(p) ==
  /\ At(p, "clear")
  /\ journal' = None
  /\ IF proc[p].recovering
     THEN /\ held' = [held EXCEPT ![p].repo = None, ![p].ino = 0]
          /\ proc' = [proc EXCEPT ![p].recovering = FALSE, ![p].at = "command"]
     ELSE CASE journal.kind = "workspace.init" -> Go(p, "initCheck") /\ UNCHANGED held
            [] journal.kind = "repo.init" -> Go(p, "initLoop") /\ UNCHANGED held
            [] OTHER -> Finish(p)
  /\ UNCHANGED <<sow, config, parts, moved, nextId>>

-----------------------------------------------------------------------------
(* What goes wrong, and what goes on around *)

\* A command that finds its conditions unmet ends and unlocks.
Refused(p) ==
  CASE At(p, "boot") -> sow = {} /\ \E r \in config.repos : parts[r].db = NoPart /\ Present(r) # {}
    [] At(p, "open") -> proc[p].repo \notin config.repos \/ parts[proc[p].repo].lock = NoPart
    [] At(p, "ready") -> ~Complete(proc[p].repo)
    [] At(p, "initCheck") -> ~ConfigChecked(p)
    [] At(p, "command") ->
         \/ proc[p].cmd = "new" /\ (~ConfigChecked(p) \/ Present(proc[p].repo) # {})
         \/ proc[p].cmd = "rm" /\ (~ConfigChecked(p) \/ proc[p].repo \notin config.repos)
    [] OTHER -> FALSE

\* The bound on operations ends a command like a refusal.
OutOfIds(p) == nextId > MaxOps /\ \/ At(p, "ready") \/ At(p, "initLoop")
                                  \/ At(p, "command") /\ proc[p].cmd \in {"new", "init"}

Refuse(p) ==
  /\ Refused(p) \/ OutOfIds(p)
  /\ Finish(p)
  /\ UNCHANGED files

\* The process is killed or returns an error; the kernel drops its locks.
Stop(p) ==
  /\ ~At(p, "idle")
  /\ Finish(p)
  /\ UNCHANGED files

\* sow.yml is edited by hand while no lifecycle command is at work on it.
EditConfig(R) ==
  /\ journal = None
  /\ \A p \in Proc : held[p].ws # "ex"
  /\ config' = [exists |-> TRUE, repos |-> R]
  /\ UNCHANGED <<sow, journal, parts, moved, nextId, held, proc>>

\* Someone makes a directory of the repository's name in the workspace.
MakeDirectory(r) ==
  /\ Present(r) = {} /\ r \notin config.repos
  /\ journal = None /\ \A p \in Proc : held[p].ws # "ex"
  /\ parts' = [parts EXCEPT ![r].repository = Foreign]
  /\ UNCHANGED <<sow, config, journal, moved, nextId, held, proc>>

-----------------------------------------------------------------------------
(* The specification *)

Init ==
  /\ sow = {}
  /\ config = [exists |-> FALSE, repos |-> {}]
  /\ journal = None
  /\ parts = [r \in Repo |-> [q \in Part |-> NoPart]]
  /\ moved = {}
  /\ nextId = 1
  /\ held = [p \in Proc |-> Unlocked]
  /\ proc = [p \in Proc |-> Idle]

Command(p) ==
  \/ Boot(p) \/ EnsureWorkspaceLock(p) \/ EnsureStateDirectories(p)
  \/ LockWorkspace(p) \/ ShareWorkspace(p) \/ Inspect(p)
  \/ OpenRepositoryLock(p) \/ LockRepository(p) \/ Leave(p)
  \/ RecoverNone(p) \/ RecoverJournal(p) \/ RecoverRemovalLock(p)
  \/ NewRepository(p) \/ RemoveRepository(p) \/ PlanRemoval(p)
  \/ InitWorkspace(p) \/ InitCheck(p) \/ (\E r \in Repo : InitRepository(p, r))
  \/ InitDists(p) \/ NextDists(p) \/ DeclaredDists(p) \/ Restart(p)
  \/ WriteConfig(p) \/ MarkApplied(p) \/ EnsureRepositoryShell(p)
  \/ MoveOwnedPath(p) \/ PurgeRecovery(p) \/ ClearJournal(p)
  \/ Refuse(p)

BeginAny(p) == \E cmd \in {"init", "new", "rm", "write"}, r \in Repo : Begin(p, cmd, r)

Next ==
  \/ \E p \in Proc : BeginAny(p) \/ Command(p) \/ Stop(p)
  \/ \E R \in SUBSET Repo : EditConfig(R)
  \/ \E r \in Repo : MakeDirectory(r)

Spec == Init /\ [][Next]_vars

\* A running command goes on, and another is given after one that stopped.
FairSpec ==
  Spec /\ (\A p \in Proc : WF_vars(Command(p))) /\ WF_vars(\E p \in Proc : BeginAny(p))

-----------------------------------------------------------------------------
(* Properties *)

JournalRecord ==
  [id : 1 .. MaxOps, kind : {"workspace.init", "repo.init", "repo.new", "repo.rm"},
   repo : Repo \union {None}, phase : {"planned", "applied"}, old : SUBSET Repo, new : SUBSET Repo]

ASSUME NoneAssumption == None \notin JournalRecord

\* Every variable has its type, and a journal is open only while sow.yml is one
\* of the two it names.
TypeOK ==
  /\ sow \subseteq {"dir", "workspace.lock", "workspace-ops", "repo-locks"}
  /\ config \in [exists : BOOLEAN, repos : SUBSET Repo]
  /\ journal = None \/ (journal \in JournalRecord /\ (Undecided \/ Decided))
  /\ parts \in [Repo -> [Part -> 0 .. MaxOps + 1]]
  /\ moved \subseteq (1 .. MaxOps) \X ({"dir"} \union DOMAIN Inside)
  /\ nextId \in 1 .. MaxOps + 1
  /\ \A p \in Proc : held[p].ws \in {"none", "sh", "ex"}

\* A repository no open journal names is all there or not there at all, made by
\* one operation, and nothing of a removed one is left behind: neither a killed
\* command nor a directory found under the name leaves a mixture.
AllOrNothing ==
  /\ \A r \in Repo : (journal = None \/ journal.repo # r) =>
       \/ \A q \in Part : parts[r][q] \in {NoPart, Foreign}
       \/ \A q \in Part : parts[r][q] = parts[r].db /\ parts[r][q] # NoPart
  /\ journal = None => moved = {}

\* Whoever works in a repository is alone there and holds the lock that the name
\* still stands for: the repository is not being made, removed or replaced.
WorkersExclusive ==
  \A p \in Proc : At(p, "inside") =>
    /\ journal = None
    /\ Complete(proc[p].repo)
    /\ held[p].repo = proc[p].repo /\ held[p].ino = parts[proc[p].repo].lock
    /\ \A q \in Proc \ {p} : At(q, "inside") => proc[q].repo # proc[p].repo

\* The first init, raced or cut short anywhere, never leaves a state directory
\* that later commands refuse because its lock is missing.
LockNeverLost ==
  "workspace.lock" \in sow \/ (sow \subseteq {"dir"} /\ StateEntries = {})

\* An open journal can be recovered: a removal whose lock is gone finds it among
\* the moved files, and no file is both in place and moved.
JournalRecoverable ==
  journal # None =>
    /\ (journal.kind = "repo.rm" /\ Decided /\ parts[journal.repo].lock = NoPart) =>
         <<journal.id, "lock">> \in moved \/ ~RemovalPathsRemain(journal.repo)
    /\ \A q \in DOMAIN Inside : <<journal.id, q>> \in moved => parts[journal.repo][q] = NoPart

\* Racing and interrupted init, repo new and repo rm leave whole repositories
\* only, a workspace whose lock is there, and a journal that can be recovered.
WorkspaceSafe == TypeOK /\ AllOrNothing /\ LockNeverLost /\ JournalRecoverable

\* A journal is closed only when what sow.yml decided has been carried out, or
\* nothing was decided and nothing was done.
ClearedMeansDone ==
  [][(journal # None /\ journal' = None /\ journal.repo # None) =>
       IF journal.repo \in config.repos THEN Complete(journal.repo)
       ELSE Present(journal.repo) = {} /\ moved = {}]_vars

\* Commands are not cut short for ever; that they come to their end is no
\* interruption.
Killed(p) == Stop(p) /\ ~(Refuse(p) \/ Leave(p) \/ NextDists(p))

Undisturbed == <>[][\A p \in Proc : ~Killed(p)]_vars

\* Whatever was interrupted, the next commands bring it to its end.
JournalEnds == Undisturbed => (journal # None ~> journal = None)

=============================================================================
