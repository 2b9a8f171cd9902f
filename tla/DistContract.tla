---------------------------- MODULE DistContract ----------------------------
(***************************************************************************)
(* What dist commands promise about the set of dists of a repository.  One *)
(* decision at a time: a dist is to appear or to disappear, and the public *)
(* tree follows in a single step before the next decision.  There is no    *)
(* step that takes a decision back.                                        *)
(***************************************************************************)
CONSTANT Dist

VARIABLES intended,  \* the dists that have been decided
          served     \* the dists clients see

Decide(d) ==
  /\ intended = served
  /\ intended' = IF d \in intended THEN intended \ {d} ELSE intended \union {d}
  /\ served' = served

Realise ==
  /\ served # intended
  /\ served' = intended
  /\ intended' = intended

Init == intended = {} /\ served = {}

Next == Realise \/ \E d \in Dist : Decide(d)

Spec == Init /\ [][Next]_<<intended, served>>
=============================================================================
