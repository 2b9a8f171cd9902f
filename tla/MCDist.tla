------------------------------- MODULE MCDist -------------------------------
(***************************************************************************)
(* Instances of DistLifecycle: two dists, of which one is signed or none,  *)
(* and one package that both may hold.                                     *)
(***************************************************************************)
EXTENDS DistLifecycle
=============================================================================
