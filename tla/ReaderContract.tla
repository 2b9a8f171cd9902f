--------------------------- MODULE ReaderContract ---------------------------
(***************************************************************************)
(* What a publication target promises its clients, who follow a pointer    *)
(* (repomd.xml, Release, InRelease) to the files it names and know nothing *)
(* of attempts, checkpoints or maintenance.  One file changes at a time:   *)
(* an immutable file appears where there was none and is never rewritten,  *)
(* a pointer moves only to bytes whose files are all there, and a file     *)
(* goes away only when no pointer names it.  A pointer never goes away.    *)
(***************************************************************************)
CONSTANTS Path, Immutable, Pointer, Content, None, Closure

VARIABLE store

\* The files named by the pointers of t.
NamedBy(t) == UNION {Closure[p][t[p]] : p \in {r \in Pointer : t[r] # None}}

Set(q, c) == store' = [store EXCEPT ![q] = c]

Appear(q, c) == store[q] = None /\ Set(q, c)

Replace(q, c) == q \notin Immutable \union Pointer /\ Set(q, c)

Move(p, c) ==
  /\ p \in Pointer
  /\ \A f \in Closure[p][c] : store[f[1]] = f[2]
  /\ Set(p, c)

Collect(q) ==
  /\ q \notin Pointer
  /\ \A f \in NamedBy(store) : f[1] # q
  /\ Set(q, None)

Init == store = [q \in Path |-> None]

Next ==
  \/ \E q \in Immutable, c \in Content : Appear(q, c)
  \/ \E q \in Path, c \in Content : Replace(q, c)
  \/ \E p \in Pointer, c \in Content : Move(p, c)
  \/ \E q \in Path : Collect(q)

Spec == Init /\ [][Next]_store
=============================================================================
