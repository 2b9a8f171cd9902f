-------------------------- MODULE MutationContract --------------------------
(***************************************************************************)
(* What add, rm and build promise about the packages of a repository's     *)
(* dists.  A decision changes what dists are to hold.  A build commits to  *)
(* a set of dists and then shows each of them, in one step and exactly as  *)
(* decided; it owes all of them before the next decision.                  *)
(***************************************************************************)
CONSTANTS Dist, Package

VARIABLES desired,  \* the packages each dist is to hold
          shown,    \* the packages each public dist names
          owed      \* dists a build has committed to and not shown yet

Decide ==
  /\ owed = {}
  /\ desired' \in [Dist -> SUBSET Package]
  /\ UNCHANGED <<shown, owed>>

Commit ==
  /\ owed = {}
  /\ owed' \in SUBSET Dist
  /\ UNCHANGED <<desired, shown>>

Show(d) ==
  /\ d \in owed
  /\ shown' = [shown EXCEPT ![d] = desired[d]]
  /\ owed' = owed \ {d}
  /\ UNCHANGED desired

Init ==
  /\ desired = [d \in Dist |-> {}]
  /\ shown = [d \in Dist |-> {}]
  /\ owed = {}

Next == Decide \/ Commit \/ \E d \in Dist : Show(d)

Spec == Init /\ [][Next]_<<desired, shown, owed>>
=============================================================================
