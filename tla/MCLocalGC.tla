----------------------------- MODULE MCLocalGC -----------------------------
(***************************************************************************)
(* Two payloads, three generations of which one is retained at a time, and *)
(* one interrupted command.                                                *)
(***************************************************************************)
EXTENDS LocalGC
=============================================================================
