---------------------------- MODULE MCPublication ----------------------------
(***************************************************************************)
(* Small instances of Publication: an RPM dist "el" with one repomd.xml,   *)
(* a DEB dist "noble" with one Release and one stable Packages alias, two  *)
(* pool files and one checksum-addressed metadata file per build.          *)
(***************************************************************************)
EXTENDS Publication

MCPayload == {"pool/a", "pool/b"}
MCMetadata == {"el-sha1", "el-sha2", "el-sha3", "by-hash1", "by-hash2"}
MCAlias == {"noble/Packages"}
MCPointer == {"el/repomd", "noble/Release"}
MCContent == {"v1", "v2", "v3"}
MCNone == "absent"

MCPath == MCPayload \union MCMetadata \union MCAlias \union MCPointer

MCDistOf ==
  [x \in MCMetadata \union MCAlias \union MCPointer |->
     IF x \in {"el-sha1", "el-sha2", "el-sha3", "el/repomd"} THEN "el" ELSE "noble"]

MCViewOf == [p \in MCPointer |-> p]

MCOrder ==
  LET rank == <<"pool/a", "pool/b", "by-hash1", "by-hash2", "el-sha1", "el-sha2", "el-sha3",
                "noble/Packages", "el/repomd", "noble/Release">>
  IN [q \in MCPath |-> CHOOSE i \in 1 .. Len(rank) : rank[i] = q]

\* A manifest from a set of <<path, bytes>> pairs.
Manifest(files) ==
  [q \in MCPath |-> IF \E f \in files : f[1] = q
                    THEN (CHOOSE f \in files : f[1] = q)[2] ELSE MCNone]

ElFiles(v) ==
  CASE v = "v1" -> {<<"el-sha1", "v1">>, <<"pool/a", "v1">>}
    [] v = "v2" -> {<<"el-sha2", "v1">>, <<"pool/a", "v1">>, <<"pool/b", "v1">>}
    [] v = "v3" -> {<<"el-sha3", "v1">>, <<"pool/b", "v1">>}

NobleFiles(v) ==
  CASE v = "v1" -> {<<"by-hash1", "v1">>, <<"pool/a", "v1">>}
    [] v = "v2" -> {<<"by-hash2", "v1">>, <<"pool/b", "v1">>}
    [] v = "v3" -> {}

MCClosure ==
  [p \in MCPointer |-> [c \in MCContent |-> IF p = "el/repomd" THEN ElFiles(c) ELSE NobleFiles(c)]]

El(v) == ElFiles(v) \union {<<"el/repomd", v>>}

Noble(v) == NobleFiles(v) \union {<<"noble/Release", v>>, <<"noble/Packages", v>>}

\* el alone, then both dists, then either rebuilt.
MCCatalogue ==
  {Manifest(El("v1")),
   Manifest(El("v2") \union Noble("v1")),
   Manifest(El("v3") \union Noble("v1")),
   Manifest(El("v2") \union Noble("v2")),
   Manifest(El("v3") \union Noble("v2"))}

MCNoRebind == {}
=============================================================================
