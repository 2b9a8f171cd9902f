---------------------------- MODULE MCWorkspace ----------------------------
(***************************************************************************)
(* Two processes and one repository, whose name sorts after "repo-locks"   *)
(* or before it.                                                           *)
(***************************************************************************)
EXTENDS WorkspaceLifecycle
=============================================================================
