------------------------------ MODULE MCIndex ------------------------------
(***************************************************************************)
(* Instances of Publication with one DEB dist and no packages: some builds *)
(* write an index that the others do not.  The index leaves the built tree *)
(* two builds later, and a later build may bring it back.                  *)
(***************************************************************************)
EXTENDS Publication

CONSTANTS WithIndex,     \* versions of Release that name the index
          WithoutIndex,  \* versions that do not
          Bytes          \* the index itself

MCContent == WithIndex \union WithoutIndex \union {Bytes}

MCDistOf == [x \in {"by-hash", "Release"} |-> "noble"]
MCViewOf == [p \in {"Release"} |-> "noble"]
MCOrder == [q \in {"by-hash", "Release"} |-> IF q = "by-hash" THEN 1 ELSE 2]

MCClosure ==
  [p \in {"Release"} |-> [c \in MCContent |-> IF c \in WithIndex THEN {<<"by-hash", Bytes>>} ELSE {}]]

MCCatalogue ==
  {[q \in {"by-hash", "Release"} |->
      IF q = "Release" THEN v ELSE IF v \in WithIndex THEN Bytes ELSE None] :
   v \in WithIndex \union WithoutIndex}

\* The operator never changes max_cache_ttl.
Never == {}
=============================================================================
