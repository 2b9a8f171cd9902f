----------------------------- MODULE MCMutation -----------------------------
(***************************************************************************)
(* Instances of MutationBuild: dists that share packages, and two versions *)
(* of one package.                                                         *)
(***************************************************************************)
EXTENDS RepositoryCheck
=============================================================================
