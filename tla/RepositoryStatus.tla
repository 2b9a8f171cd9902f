-------------------------- MODULE RepositoryStatus --------------------------
(***************************************************************************)
(* `status` beside the commands of MutationBuild.  It takes no lock: it    *)
(* probes the repository lock, reads sow.yml and the ledger in separate    *)
(* transactions while writers come, go and are killed, and at the end      *)
(* probes and reads again.  Its answer "ready to copy" must nevertheless   *)
(* be true.                                                                *)
(***************************************************************************)
EXTENDS RepositoryCheck

VARIABLE obs  \* the observation under way

statusVars == <<vars, obs>>

NoObservation ==
  [at |-> "none", config |-> config, edited |-> FALSE, locked |-> FALSE, summary |-> <<>>,
   left |-> {}, dist |-> "", want |-> {}, clean |-> TRUE, ready |-> FALSE]

\* Store.Summary: revision, generation, status and counts, in one statement.
Summary ==
  <<revision, Len(generations), \E d \in Dist : memberships[d] # built[d].pkgs,
    Cardinality({p \in Package : objects[p] # "none"}),
    Cardinality({x \in Dist \X Package : x[2] \in memberships[x[1]]})>>

\* probeFileLock
Locked == pc.at # "idle"

BeginStatus ==
  /\ obs.at = "none"
  /\ obs' = [NoObservation EXCEPT !.at = "probe"]
  /\ UNCHANGED vars

Probe ==
  /\ obs.at = "probe"
  /\ obs' = [obs EXCEPT !.at = "summary", !.locked = Locked]
  /\ UNCHANGED vars

\* The summary, and the semantic relations of the ledger.
ReadSummary ==
  /\ obs.at = "summary"
  /\ obs' = [obs EXCEPT !.at = "dists", !.summary = Summary, !.left = Dist,
                        !.clean = ~Summary[3] /\ SemanticState]
  /\ UNCHANGED vars

ReadDesired(d) ==
  /\ obs.at = "dists"
  /\ d \in obs.left
  /\ obs' = [obs EXCEPT !.at = "built", !.left = @ \ {d}, !.dist = d, !.want = memberships[d]]
  /\ UNCHANGED vars

ReadBuilt(d) ==
  /\ obs.at = "built"
  /\ d = obs.dist
  /\ obs' = [obs EXCEPT !.at = "dists", !.dist = "", !.want = {},
                        !.clean = @ /\ obs.want = built[d].pkgs /\ obs.config[d] = built[d].policy]
  /\ UNCHANGED vars

ReadPending ==
  /\ obs.at = "dists"
  /\ obs.left = {}
  /\ obs' = [obs EXCEPT !.at = "lock", !.clean = @ /\ Pending = {}]
  /\ UNCHANGED vars

FinalProbe ==
  /\ obs.at = "lock"
  /\ obs' = [obs EXCEPT !.at = "again", !.locked = @ \/ Locked]
  /\ UNCHANGED vars

\* Mutant: the summary is not read a second time.
FinalSummaryNone ==
  /\ obs.at = "again"
  /\ obs' = [obs EXCEPT !.at = "config"]
  /\ UNCHANGED vars

FinalSummary ==
  /\ obs.at = "again"
  /\ obs' = [obs EXCEPT !.at = "config", !.locked = @ \/ Summary # obs.summary]
  /\ UNCHANGED vars

\* The last look at sow.yml, and the answer.
Report ==
  /\ obs.at = "config"
  /\ obs' = [NoObservation EXCEPT !.ready = obs.clean /\ ~obs.locked /\ config = obs.config]
  /\ UNCHANGED vars

Status ==
  \/ BeginStatus \/ Probe \/ ReadSummary \/ ReadPending \/ FinalProbe \/ FinalSummary \/ Report
  \/ \E d \in Dist : ReadDesired(d) \/ ReadBuilt(d)

\* Commands go on meanwhile; sow.yml is not changed and changed back within
\* one observation.
Meanwhile ==
  /\ Next
  /\ IF config' = config \/ obs.at = "none" THEN obs' = obs
     ELSE ~obs.edited /\ obs' = [obs EXCEPT !.edited = TRUE]

StatusInit == Init /\ obs = NoObservation

StatusSpec == StatusInit /\ [][Status \/ Meanwhile]_statusVars

FairStatusSpec == StatusSpec /\ Fairness

\* Status says "ready to copy" only if, when it took its last look at the
\* ledger, the public tree was the last generation and showed every package
\* wanted under the policies it had read: no writer, finished or killed in
\* between, goes unnoticed.  (An answer whose sow.yml has changed by then is
\* withdrawn by Report.)
StatusTrue ==
  [][FinalSummary /\ obs.clean /\ ~obs'.locked /\ config = obs.config =>
       /\ Public = Built
       /\ \A d \in Dist : live[d].pkgs = memberships[d] /\ obs.config[d] = built[d].policy]_statusVars
=============================================================================
