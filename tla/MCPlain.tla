------------------------------ MODULE MCPlain ------------------------------
(***************************************************************************)
(* Two RPMs and a DEB, of which --pigsty removes one RPM.  Signing and     *)
(* --pigsty alone make three pointers; two changes by the user make more   *)
(* than the retention list holds.                                          *)
(***************************************************************************)
EXTENDS PlainCreate
=============================================================================
