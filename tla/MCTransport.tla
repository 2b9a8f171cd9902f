----------------------------- MODULE MCTransport -----------------------------
(***************************************************************************)
(* An instance of ObjectTransport: one object to add in parts and one to   *)
(* replace, among three that stay, listed in two pages by two workers.     *)
(***************************************************************************)
EXTENDS ObjectTransport
=============================================================================
