---------------------------- MODULE MCMaintenance ----------------------------
(***************************************************************************)
(* Instances of Publication for maintenance: one DEB dist whose first      *)
(* package set is replaced by another, so that its index leaves the built  *)
(* tree after two more builds and its package after a local gc, and both   *)
(* are collected at the target in the end.                                 *)
(***************************************************************************)
EXTENDS Publication

MCPayload == {"pool/a", "pool/b"}
MCMetadata == {"by-hash"}
MCAlias == {}
MCPointer == {"Release"}
MCContent == {"v1", "v2", "v3"}
MCNone == "absent"

MCPath == MCPayload \union MCMetadata \union MCAlias \union MCPointer

MCDistOf == [x \in MCMetadata \union MCAlias \union MCPointer |-> "noble"]
MCViewOf == [p \in MCPointer |-> "noble"]

MCOrder ==
  LET rank == <<"pool/a", "pool/b", "by-hash", "Release">>
  IN [q \in MCPath |-> CHOOSE i \in 1 .. Len(rank) : rank[i] = q]

\* The first version holds package a and its index, the others package b.
Named(v) ==
  IF v = "v1" THEN {<<"by-hash", "v1">>, <<"pool/a", "v1">>} ELSE {<<"pool/b", "v1">>}

Manifest(files) ==
  [q \in MCPath |-> IF \E f \in files : f[1] = q
                    THEN (CHOOSE f \in files : f[1] = q)[2] ELSE MCNone]

MCClosure == [p \in MCPointer |-> [c \in MCContent |-> Named(c)]]
MCCatalogue == {Manifest(Named(v) \union {<<"Release", v>>}) : v \in {"v1", "v2", "v3"}}

\* The operator never changes max_cache_ttl, or raises it.
Never == {}
Raise == {<<0, 2>>}
=============================================================================
