------------------------------ MODULE MCStatus ------------------------------
(***************************************************************************)
(* An instance of RepositoryStatus: one observer, one mutation and its     *)
(* recoveries, and a policy that is edited.                                *)
(***************************************************************************)
EXTENDS RepositoryStatus
=============================================================================
