--------------------------- MODULE RepositoryCheck ---------------------------
(***************************************************************************)
(* `check`, `changes`, `rm --check`, `repo show` and `dist show` over the  *)
(* states MutationBuild can leave behind.  They hold the repository lock   *)
(* shared, so they see no command at work, but they do see what killed     *)
(* commands left, and they repair nothing: `check` has to tell work that   *)
(* recovery will finish from damage, and `rm --check` has to foretell a    *)
(* command that runs later.                                                *)
(***************************************************************************)
EXTENDS MutationBuild

\* The operations whose private directory is still to be removed.
CleanupOperations == {i \in Operation : ops[i].state \in Terminal /\ HasStage(i)}

-----------------------------------------------------------------------------
(* The journal: which mixtures of old and new it permits *)

\* inspectMutationRecoveryView, in four parts.  Nothing is public before the
\* plan is frozen, and the plan starts from the generation that is built.
FrozenBinding(i) == ops[i].state \in {"applied", "built", "recovering"} /\ ops[i].base = Built

\* A payload of the plan has its pending name, its public name, or both.
PayloadsFound(i) == \A p \in ops[i].pooled : objects[p] = "pending" /\ p \in pending \union pool

NewDists(i) == {d \in ops[i].buildDists : live[d] = ops[i].tree[d]}

\* Each dist is the old tree with the new one staged, or the other way round.
DistsOldOrNew(i) ==
  /\ \A d \in NewDists(i) : <<i, d, ops[i].base.live[d]>> \in trees
  /\ \A d \in ops[i].buildDists \ NewDists(i) :
       live[d] = ops[i].base.live[d] /\ <<i, d, ops[i].tree[d]>> \in trees

\* No dist is new before every payload is public, and nothing else differs
\* from the generation the plan starts from.
NothingElse(i) ==
  /\ NewDists(i) # {} => ops[i].pooled \subseteq pool
  /\ pool = ops[i].base.pool \union (ops[i].pooled \intersect pool)
  /\ \A d \in Dist \ ops[i].buildDists : live[d] = ops[i].base.live[d]

PermittedMix(i) == FrozenBinding(i) /\ PayloadsFound(i) /\ DistsOldOrNew(i) /\ NothingElse(i)

\* The binding of a pending mutation to sow.yml and to its manifest.
BoundJournal(i) ==
  /\ config = ops[i].config
  /\ IF ops[i].manifest = "none"
     THEN ops[i].state \in {"planned", "recovering"}
     ELSE ManifestOf(i) \in stage

RecoveryRefused ==
  \/ Cardinality(Pending) > 1
  \/ \E i \in Pending : ~BoundJournal(i) \/ (ops[i].manifest = "frozen" /\ ~PermittedMix(i))

\* The pending operation whose plan check accepts.
View == IF RecoveryRefused THEN {} ELSE {i \in Pending : ops[i].manifest = "frozen"}

\* Mutant: payloads of the plan that are public already are not expected.
PooledPublicNone == {}

\* pooledPublic
PooledPublic == {p \in pool : \E i \in View : p \in ops[i].pooled}

\* targetDists
TargetPublic(d) == \E i \in View : d \in NewDists(i)

\* journalPending: bytes an open or unfinished operation accounts for.
JournalPending ==
  LET open == Pending \union CleanupOperations
      adds == {i \in open : /\ ops[i].kind = "add" /\ ops[i].manifest # "none"
                            /\ ManifestOf(i) \in stage}
  IN (UNION {ops[i].dropped : i \in open}) \union (UNION {ops[i].objects : i \in adds})

JournalUnreadable ==
  \E i \in Pending : ops[i].kind = "add" /\ ops[i].manifest # "none" /\ ManifestOf(i) \notin stage

-----------------------------------------------------------------------------
(* The layers of check *)

\* validateSemanticState: built packages are in the pool, and a pending row is
\* wanted by some dist and built into none.
SemanticState ==
  /\ \A d \in Dist : \A p \in built[d].pkgs : objects[p] = "pool"
  /\ \A p \in Package : objects[p] = "pending" =>
       /\ \E d \in Dist : p \in memberships[d]
       /\ \A d \in Dist : p \notin built[d].pkgs

StateLayer == SemanticState /\ ~RecoveryRefused /\ ~JournalUnreadable

\* The objects whose bytes are read: all of the pool, and every member.
CheckedObjects ==
  {p \in Package : objects[p] = "pool"} \union UNION {memberships[d] \union built[d].pkgs : d \in Dist}

BytesFound == \A p \in CheckedObjects : Available(p)

\* validatePublicPoolObjectBijection
PoolBijection == pool = {p \in Package : objects[p] = "pool"} \union PooledPublic

\* Every pending file is accounted for, and every pending row has its file.
PendingStore ==
  /\ \A p \in pending : objects[p] = "pending" \/ p \in JournalPending
  /\ \A p \in CheckedObjects : objects[p] = "pending" => p \in pending \union PooledPublic

MembershipLayer == \A d \in Dist : ApplyPolicy(config[d], memberships[d]) = memberships[d]

\* The packages the index of a dist has to name: those built, or those desired
\* when the journal's tree is the public one.
ValidationObjects(d) == IF TargetPublic(d) THEN memberships[d] ELSE built[d].pkgs

IndexLayer == \A d \in Dist : live[d].pkgs = ValidationObjects(d)

GenerationLayer == View # {} \/ Public = Built

Integrity ==
  /\ StateLayer
  /\ BytesFound /\ PoolBijection /\ PendingStore
  /\ MembershipLayer /\ IndexLayer /\ GenerationLayer

\* statusAtLeast, over the observations in the order of their priority.
CheckStatus ==
  CASE ~Integrity -> "error"
    [] Pending # {} \/ \E p \in pending : objects[p] # "pending" -> "recovering"
    [] Dirty(config) -> "dirty"
    [] OTHER -> "clean"

\* Changes: the difference the last generation made, given only when nothing
\* is open and check found no damage.
ChangesGiven == Pending = {} /\ CheckStatus \in {"clean", "dirty"}

-----------------------------------------------------------------------------
(* rm --check *)

\* Mutant: the index files that stay for one more generation are forgotten.
PreviewTreeBare(i, d) == [by |-> i, pkgs |-> ops[i].desired[d], prior |-> 0]

\* previewRPMDist and its counterpart for DEB: the packages that remain, and
\* the index files of the tree now public.
PreviewTree(i, d) ==
  [by |-> i, pkgs |-> ops[i].desired[d], prior |-> ops[i].base.live[d].by]

\* previewRemovalChanges
PreviewChanges(i) ==
  [live |-> [d \in Dist |-> IF d \in ops[i].buildDists THEN PreviewTree(i, d)
                            ELSE ops[i].base.live[d]],
   pool |-> ops[i].base.pool \union
              {p \in UNION {ops[i].desired[d] : d \in ops[i].buildDists} : objects[p] = "pending"}]

\* predictedDirtyAfterBuild
PredictedDirty(i) ==
  \E d \in Dist \ ops[i].buildDists :
    \/ (IF d \in ops[i].dists THEN ops[i].desired[d] ELSE memberships[d]) # built[d].pkgs
    \/ ops[i].config[d] # built[d].policy

\* previewRemove: the outcome it announces, from the state `rm` starts from.
PreviewRemove(i) == [public |-> PreviewChanges(i), dirty |-> PredictedDirty(i)]

-----------------------------------------------------------------------------
(* repo show and dist show *)

\* makeDistInfo: an open operation counts for the dists it selected.
DistInfo(d) ==
  CASE \E i \in Pending : d \in ops[i].dists -> "recovering"
    [] memberships[d] # built[d].pkgs \/ config[d] # built[d].policy -> "dirty"
    [] OTHER -> "clean"

\* repositoryInfo: every open operation counts.
RepositoryInfo ==
  CASE Pending # {} -> "recovering"
    [] Dirty(config) -> "dirty"
    [] OTHER -> "clean"

-----------------------------------------------------------------------------
(* Properties *)

\* An operation that was never staged is being undone, and its manifest is
\* gone already: the one interruption check does not recognise.
UndoInterrupted(i) ==
  ops[i].state = "planned" /\ ops[i].manifest # "none" /\ ManifestOf(i) \notin stage

\* Whatever killed commands and power losses leave behind, check takes it for
\* work to recover and never for damage, as long as sow.yml is the one the
\* open operation is bound to and no policy was tightened since; what it calls
\* ready to copy shows exactly the packages wanted, with every payload; and
\* once nothing is left to finish or to clean up, `changes` answers.
CheckHonest ==
  pc.at = "idle" =>
    /\ (\A i \in Pending : config = ops[i].config /\ ~UndoInterrupted(i)) /\ MembershipLayer =>
         Integrity
    /\ CheckStatus = "clean" =>
         \A d \in Dist : live[d].pkgs = memberships[d] /\ memberships[d] \subseteq pool
    /\ Pending = {} /\ CleanupOperations = {} /\ MembershipLayer => ChangesGiven

\* Neither command opens the public tree's index, yet a dist shown as clean
\* serves exactly the packages it is to hold, even while an operation on other
\* dists is half done, and a repository shown as clean is the last generation.
ShownClean ==
  pc.at = "idle" =>
    /\ \A d \in Dist : DistInfo(d) = "clean" =>
         live[d].pkgs = memberships[d] /\ memberships[d] \subseteq pool
    /\ RepositoryInfo = "clean" => Public = Built

\* What `check`, `changes`, `dist show` and `repo show` tell the operator after
\* an interruption agrees with what clients are served and recovery can do.
ReportsHonest == CheckHonest /\ ShownClean

\* A removal that is carried out, at once or by recovery after any number of
\* interruptions, makes exactly the public tree `rm --check` announced for it
\* and leaves the repository as dirty as announced.
PreviewExact ==
  [][\A i \in Operation :
       ops[i].kind = "rm" /\ ~ops[i].skip /\ ops[i].state # "done" /\ ops'[i].state = "done" =>
         PreviewRemove(i) =
           [public |-> Public',
            dirty |-> \E d \in Dist : \/ memberships'[d] # built'[d].pkgs
                                      \/ ops[i].config[d] # built'[d].policy]]_vars
=============================================================================
