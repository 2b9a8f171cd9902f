----------------------------- MODULE DistProofs -----------------------------
(***************************************************************************)
(* Safety of DistLifecycle for every set of dists and packages and every   *)
(* bound.  DistInv is the inductive invariant: at most the last operation  *)
(* of the ledger is pending; its journal says which part of sow.yml, the   *)
(* public tree and the ledger it has changed.                              *)
(***************************************************************************)
EXTENDS DistLifecycle, TLAPS

\* An operation's record fits the ledger and the configuration.
Journal(i) ==
  LET o == ops[i]
  IN /\ i = Len(ops)
     /\ o.kind # "build"
     /\ o.generation = Len(generations) + 1
     /\ dists \subseteq o.old
     /\ Removal(i) =>
          /\ o.name \in dists
          /\ o.new = o.old \ {o.name}
          /\ o.tree = Built[o.name]
     /\ ~Removal(i) =>
          /\ o.name \notin dists
          /\ o.new = o.old \union {o.name}
          /\ (o.kind = "dist.init") <=> (o.name \in o.old)
          /\ o.tree \in {NoTree, i}
     /\ o.state = "planned" => config = o.old
     /\ o.state # "planned" => o.tree # NoTree
     /\ o.state = "staged" => config \in {o.old, o.new}
     /\ o.state \in {"applied", "built"} => config = o.new

JournalSound == \A i \in Pending : Journal(i)

\* An operation's dist differs from the last generation only once applied.
Placed(i) ==
  /\ ops[i].state \in {"planned", "staged"} =>
       live[ops[i].name] = Built[ops[i].name] /\ RecoveryOf(i) = {}
  /\ ops[i].state = "applied" =>
       \/ InPlace(i)
       \/ live[ops[i].name] = Built[ops[i].name] /\ RecoveryOf(i) = {}
  /\ ops[i].state = "built" => InPlace(i)

\* Only the pending operation's dist may differ from the last generation.
PlaceSound ==
  /\ dists = {d \in Dist : Built[d] # NoTree}
  /\ \A d \in Dist : (\A i \in Pending : ops[i].name # d) => live[d] = Built[d]
  /\ \A i \in Pending : Placed(i)

Undecided(i) ==
  ops[i].state \in {"planned", "staged"} /\ ~Decided(i) /\ config = ops[i].old

\* What the running command may count on.
CommandSound ==
  /\ pc \in {"execute", "redo", "undo", "fail"} => Pending # {}
  /\ pc \in {"tidy", "ready", "more", "cleanup"} => Pending = {}
  /\ pc \in {"undo", "fail"} => \A i \in Pending : Undecided(i)
  /\ pc = "redo" => \A i \in Pending : ops[i].state # "planned" /\ config = ops[i].new
  /\ Pending = {} => dists \subseteq config

\* The staged evidence of a dist.new lasts until it is in place.
Evidence(i) ==
  ops[i].kind = "dist.new" =>
    /\ pc = "execute" /\ <<i, "tree">> \in stage /\ ops[i].name \in Signed =>
         <<i, "signer">> \in stage
    /\ (pc = "execute" \/ Decided(i)) /\ ops[i].tree # NoTree =>
         /\ <<i, "tree">> \in stage \/ InPlace(i)
         /\ ops[i].name \in Signed => <<i, "signer">> \in stage

StageSound == \A i \in Pending : Evidence(i)

\* Payloads are pending or pooled, and new work starts without leftovers.
PackagesSound ==
  /\ PendingOwned
  /\ pending \intersect pooled = {}
  /\ pc \in {"ready", "more"} => Leftover = {}

DistInv ==
  /\ TypeOK
  /\ JournalSound
  /\ PlaceSound
  /\ CommandSound
  /\ StageSound
  /\ PackagesSound

-----------------------------------------------------------------------------
(* Steps on the ledger *)

\* At most one operation is pending, the last of the ledger.
LEMMA OnlyPending ==
  ASSUME DistInv, NEW i \in Pending
  PROVE  Pending = {i} /\ i = Len(ops) /\ i \in 1 .. Len(ops)
<1>1. \A j \in Pending : j = Len(ops)
  BY DEF DistInv, JournalSound, Journal
<1>2. i \in 1 .. Len(ops)
  BY DEF Pending
<1> QED
  BY <1>1, <1>2

\* SetOperationState changes one field of one record.
LEMMA StateSet ==
  ASSUME TypeOK, NEW i \in 1 .. Len(ops), NEW s \in OperationState, SetOperationState(i, s)
  PROVE  /\ ops' \in Seq(OperationRecord)
         /\ Len(ops') = Len(ops)
         /\ ops'[i].state = s
         /\ ops'[i].kind = ops[i].kind
         /\ ops'[i].name = ops[i].name
         /\ ops'[i].generation = ops[i].generation
         /\ ops'[i].old = ops[i].old
         /\ ops'[i].new = ops[i].new
         /\ ops'[i].tree = ops[i].tree
         /\ ops'[i].dropped = ops[i].dropped
         /\ \A j \in 1 .. Len(ops) : j # i => ops'[j] = ops[j]
         /\ s \in Terminal => Pending' = Pending \ {i}
         /\ s \notin Terminal /\ i \in Pending => Pending' = Pending
<1>1. ops \in Seq(OperationRecord)
  BY DEF TypeOK
<1>2. ops[i] \in OperationRecord
  BY <1>1
<1> DEFINE r == [ops[i] EXCEPT !.state = s]
<1>3. ops' = [ops EXCEPT ![i] = r]
  BY DEF SetOperationState
<1>4. r \in OperationRecord
  BY <1>2 DEF OperationRecord
<1>5. /\ r.state = s /\ r.kind = ops[i].kind /\ r.name = ops[i].name
      /\ r.generation = ops[i].generation /\ r.old = ops[i].old /\ r.new = ops[i].new
      /\ r.tree = ops[i].tree /\ r.dropped = ops[i].dropped
  BY <1>2 DEF OperationRecord
<1> HIDE DEF r
<1>6. ops' \in Seq(OperationRecord) /\ Len(ops') = Len(ops) /\ ops'[i] = r
      /\ \A j \in 1 .. Len(ops) : j # i => ops'[j] = ops[j]
  BY <1>1, <1>3, <1>4
<1>7. (s \in Terminal => Pending' = Pending \ {i})
      /\ (s \notin Terminal /\ i \in Pending => Pending' = Pending)
  BY <1>5, <1>6 DEF Pending
<1> QED
  BY <1>5, <1>6, <1>7

\* The payload of a planned operation gets its tree's digest.
LEMMA TreeSet ==
  ASSUME TypeOK, NEW i \in 1 .. Len(ops), ops' = [ops EXCEPT ![i].tree = i]
  PROVE  /\ ops' \in Seq(OperationRecord)
         /\ Len(ops') = Len(ops)
         /\ ops'[i].tree = i
         /\ ops'[i].kind = ops[i].kind
         /\ ops'[i].name = ops[i].name
         /\ ops'[i].state = ops[i].state
         /\ ops'[i].generation = ops[i].generation
         /\ ops'[i].old = ops[i].old
         /\ ops'[i].new = ops[i].new
         /\ ops'[i].dropped = ops[i].dropped
         /\ \A j \in 1 .. Len(ops) : j # i => ops'[j] = ops[j]
         /\ Pending' = Pending
<1>1. ops \in Seq(OperationRecord)
  BY DEF TypeOK
<1>2. ops[i] \in OperationRecord
  BY <1>1
<1> DEFINE r == [ops[i] EXCEPT !.tree = i]
<1>3. ops' = [ops EXCEPT ![i] = r]
  OBVIOUS
<1>4. r \in OperationRecord
  BY <1>2 DEF OperationRecord
<1>5. /\ r.tree = i /\ r.kind = ops[i].kind /\ r.name = ops[i].name
      /\ r.generation = ops[i].generation /\ r.old = ops[i].old /\ r.new = ops[i].new
      /\ r.state = ops[i].state /\ r.dropped = ops[i].dropped
  BY <1>2 DEF OperationRecord
<1> HIDE DEF r
<1>6. ops' \in Seq(OperationRecord) /\ Len(ops') = Len(ops) /\ ops'[i] = r
      /\ \A j \in 1 .. Len(ops) : j # i => ops'[j] = ops[j]
  BY <1>1, <1>3, <1>4
<1>7. Pending' = Pending
  BY <1>5, <1>6 DEF Pending
<1> QED
  BY <1>5, <1>6, <1>7

\* A new record goes to the end of the ledger.
LEMMA Appended ==
  ASSUME TypeOK, NEW r \in OperationRecord, ops' = Append(ops, r)
  PROVE  /\ ops' \in Seq(OperationRecord)
         /\ Len(ops') = Len(ops) + 1
         /\ ops'[Len(ops) + 1] = r
         /\ \A j \in 1 .. Len(ops) : ops'[j] = ops[j]
         /\ r.state \in Terminal => Pending' = Pending
         /\ r.state \notin Terminal => Pending' = Pending \union {Len(ops) + 1}
<1>1. ops \in Seq(OperationRecord)
  BY DEF TypeOK
<1>2. ops' \in Seq(OperationRecord) /\ Len(ops') = Len(ops) + 1
      /\ ops'[Len(ops) + 1] = r /\ \A j \in 1 .. Len(ops) : ops'[j] = ops[j]
  BY <1>1
<1>3. Len(ops) \in Nat
  BY <1>1
<1>4. 1 .. Len(ops') = (1 .. Len(ops)) \union {Len(ops) + 1}
  BY <1>2, <1>3
<1>5. (r.state \in Terminal => Pending' = Pending)
      /\ (r.state \notin Terminal => Pending' = Pending \union {Len(ops) + 1})
  BY <1>2, <1>3, <1>4 DEF Pending
<1> QED
  BY <1>2, <1>5

-----------------------------------------------------------------------------
(* Frames *)

\* Before anything is decided the old and the new configuration differ,
\* except for an initialisation.
LEMMA OldAndNew ==
  ASSUME NEW i, Journal(i), ops[i].kind # "dist.init"
  PROVE  ops[i].old # ops[i].new
  BY DEF Journal, Removal

\* The last generation has a tree for exactly the dists with a row.
LEMMA BuiltTree ==
  ASSUME DistInv, NEW i \in Pending
  PROVE  /\ ops[i].name \in Dist
         /\ ops[i] \in OperationRecord
         /\ ops[i].name \in dists => Built[ops[i].name] # NoTree
         /\ ops[i].name \notin dists => Built[ops[i].name] = NoTree
<1>1. ops \in Seq(OperationRecord) /\ i \in 1 .. Len(ops)
  BY DEF DistInv, TypeOK, Pending
<1>2. ops[i] \in OperationRecord
  BY <1>1
<1>3. ops[i].name \in Dist
  BY <1>2 DEF OperationRecord
<1> QED
  BY <1>2, <1>3 DEF DistInv, PlaceSound

\* A package that a removal still has to delete stays one while the removal's
\* record and its recovery directory stay.
LEMMA PackagesFrame ==
  ASSUME PackagesSound, UNCHANGED <<packages, recovery>>,
         Len(ops) \in Nat, Len(ops') \in Nat, Len(ops) <= Len(ops'),
         \A j \in 1 .. Len(ops) : ops[j].state \in Terminal => ops'[j] = ops[j],
         pc' \in {"ready", "more"} => Leftover' = {}
  PROVE  PackagesSound'
<1>1. RecoveryOf(0) = RecoveryOf(0)' /\ \A j \in Nat : RecoveryOf(j)' = RecoveryOf(j)
  BY DEF RecoveryOf
<1>2. \A j \in Leftover : RecoveryOf(j) # {} => j \in Leftover' /\ ops'[j] = ops[j]
  BY <1>1 DEF Leftover
<1>3. ASSUME NEW p \in pending' \ objects'
      PROVE  \E i \in Leftover' : p \in ops'[i].dropped /\ RecoveryOf(i)' # {}
  <2>1. PICK i \in Leftover : p \in ops[i].dropped /\ RecoveryOf(i) # {}
    BY <1>3 DEF PackagesSound, PendingOwned, packages
  <2>2. i \in Leftover' /\ ops'[i] = ops[i]
    BY <1>2, <2>1
  <2>3. i \in Nat
    BY <2>1 DEF Leftover
  <2> QED
    BY <1>1, <2>1, <2>2, <2>3
<1> QED
  BY <1>3 DEF PackagesSound, PendingOwned, packages

\* Nothing but the place of the command changes.
LEMMA CommandMoves ==
  ASSUME DistInv, UNCHANGED <<config, dists, disk, generations, ops, packages>>,
         pc' \in {"idle", "recover", "undo", "redo", "tidy", "ready", "more", "cleanup", "fail"},
         CommandSound',
         pc' \in {"ready", "more"} => Leftover = {}
  PROVE  DistInv'
<1>1. TypeOK'
  BY DEF DistInv, TypeOK, Operation, disk, packages
<1>2. Pending' = Pending
  BY DEF Pending
<1>3. JournalSound'
  BY <1>2 DEF DistInv, JournalSound, Journal, Removal, Built
<1>4. PlaceSound'
  BY <1>2 DEF DistInv, PlaceSound, Placed, InPlace, Removal, Built, RecoveryOf, disk
<1>5. StageSound'
  BY <1>2 DEF DistInv, StageSound, Evidence, InPlace, Removal, Decided, disk
<1>6. PackagesSound'
  <2>1. Len(ops) \in Nat
    BY DEF DistInv, TypeOK
  <2>2. Leftover' = Leftover
    BY DEF Leftover, PartsOf, RecoveryOf, disk
  <2> QED
    BY <2>1, <2>2, PackagesFrame DEF DistInv, disk
<1> QED
  BY <1>1, <1>3, <1>4, <1>5, <1>6 DEF DistInv

LEMMA StartStep ==
  ASSUME DistInv, Start
  PROVE  DistInv'
<1>1. CommandSound'
  BY DEF DistInv, CommandSound, Start, Pending
<1> QED
  BY <1>1, CommandMoves DEF Start

LEMMA TakeUpStep ==
  ASSUME DistInv, NEW i \in Operation, TakeUp(i)
  PROVE  DistInv'
<1>1. i \in Pending /\ Journal(i)
  BY DEF TakeUp, DistInv, JournalSound
<1>2. Pending = {i}
  BY <1>1, OnlyPending
<1>3. Pending' = Pending
  BY DEF TakeUp, Pending
<1>4. CASE MustUndo(i) /\ pc' = "undo"
  <2>1. ops[i].state \in {"planned", "staged"} /\ config = ops[i].old
    BY <1>1, <1>4 DEF MustUndo, Journal
  <2>2. ~Decided(i)
    BY <1>1, <1>4, OldAndNew DEF MustUndo, Decided
  <2>3. Undecided(i)'
    BY <2>1, <2>2 DEF Undecided, Decided, TakeUp
  <2>4. CommandSound'
    BY <1>2, <1>3, <1>4, <2>3 DEF CommandSound
  <2> QED
    BY <1>4, <2>4, CommandMoves DEF TakeUp
<1>5. CASE MustRedo(i) /\ pc' = "redo"
  <2>1. CommandSound'
    BY <1>2, <1>3, <1>5 DEF CommandSound, MustRedo, TakeUp
  <2> QED
    BY <1>5, <2>1, CommandMoves DEF TakeUp
<1> QED
  BY <1>4, <1>5 DEF TakeUp

LEMMA RecoverNoneStep ==
  ASSUME DistInv, RecoverNone
  PROVE  DistInv'
<1>1. CommandSound'
  BY DEF DistInv, CommandSound, RecoverNone, Pending
<1> QED
  BY <1>1, CommandMoves DEF RecoverNone

LEMMA CheckStep ==
  ASSUME DistInv, Check
  PROVE  DistInv'
<1>1. CommandSound'
  BY DEF DistInv, CommandSound, Check, Pending
<1> QED
  BY <1>1, CommandMoves DEF Check

LEMMA NoopStep ==
  ASSUME DistInv, Noop
  PROVE  DistInv'
<1>1. CommandSound'
  BY DEF DistInv, CommandSound, Noop, Pending
<1> QED
  BY <1>1, CommandMoves DEF Noop

LEMMA FinishStep ==
  ASSUME DistInv, Finish
  PROVE  DistInv'
<1>1. CommandSound'
  BY DEF DistInv, CommandSound, Finish, Pending
<1> QED
  BY <1>1, CommandMoves DEF Finish

LEMMA FailStep ==
  ASSUME DistInv, NEW i \in Operation, Fail(i)
  PROVE  DistInv'
<1>1. i \in Pending /\ Journal(i)
  BY DEF Fail, DistInv, JournalSound
<1>2. Pending = {i}
  BY <1>1, OnlyPending
<1>3. Pending' = Pending
  BY DEF Fail, Pending
<1>4. ~Decided(i)
  BY <1>1, OldAndNew DEF Fail, Decided
<1>5. Undecided(i)'
  BY <1>4 DEF Undecided, Decided, Fail
<1>6. CommandSound'
  BY <1>2, <1>3, <1>5 DEF CommandSound, Fail
<1> QED
  BY <1>6, CommandMoves DEF Fail

LEMMA StopStep ==
  ASSUME DistInv, Stop
  PROVE  DistInv'
<1>1. CommandSound'
  BY DEF DistInv, CommandSound, Stop, Pending
<1> QED
  BY <1>1, CommandMoves DEF Stop

-----------------------------------------------------------------------------
(* Stage directories *)

\* Removing a part of a stage whose operation is closed or undecided.
LEMMA RemovePartStep ==
  ASSUME DistInv, NEW i \in Operation, NEW part \in Part, RemovePart(i, part),
         pc \in {"undo", "fail"} \/ Pending = {},
         pc \notin {"ready", "more"}
  PROVE  DistInv'
<1>1. TypeOK'
  BY DEF DistInv, TypeOK, RemovePart, Operation, packages
<1>2. Pending' = Pending
  BY DEF Pending, RemovePart
<1>3. JournalSound'
  BY <1>2 DEF DistInv, JournalSound, Journal, Removal, Built, RemovePart
<1>4. \A j \in Pending : Undecided(j)
  BY DEF DistInv, CommandSound
<1>5. PlaceSound'
  <2>1. \A j \in Pending : Placed(j)'
    BY <1>4 DEF DistInv, PlaceSound, Placed, Undecided, Built, RecoveryOf, RemovePart
  <2> QED
    BY <1>2, <2>1 DEF DistInv, PlaceSound, Built, RemovePart
<1>6. CommandSound'
  BY <1>2 DEF DistInv, CommandSound, Undecided, Decided, RemovePart
<1>7. StageSound'
  <2>1. ASSUME NEW j \in Pending
        PROVE  Evidence(j)'
    <3>1. ~Decided(j)' /\ pc' # "execute"
      BY <1>4, <2>1 DEF Undecided, Decided, RemovePart
    <3> QED
      BY <3>1 DEF Evidence
  <2> QED
    BY <1>2, <2>1 DEF StageSound
<1>8. PackagesSound'
  <2>1. Len(ops) \in Nat
    BY DEF DistInv, TypeOK
  <2> QED
    BY <2>1, PackagesFrame DEF DistInv, RemovePart
<1> QED
  BY <1>1, <1>3, <1>5, <1>6, <1>7, <1>8 DEF DistInv

LEMMA StageRemovalStep ==
  ASSUME DistInv, NEW i \in Operation, NEW part \in Part,
         UndoStage(i, part) \/ FailStage(i, part) \/ TidyStage(i, part)
  PROVE  DistInv'
<1>1. RemovePart(i, part)
  BY DEF UndoStage, FailStage, TidyStage
<1>2. pc \in {"undo", "fail"} \/ Pending = {}
  BY DEF UndoStage, FailStage, TidyStage, DistInv, CommandSound
<1>3. pc \notin {"ready", "more"}
  BY DEF UndoStage, FailStage, TidyStage
<1> QED
  BY <1>1, <1>2, <1>3, RemovePartStep

LEMMA StagePartStep ==
  ASSUME DistInv, NEW i \in Operation, NEW part \in Part, StagePart(i, part)
  PROVE  DistInv'
<1>1. i \in Pending /\ Journal(i) /\ Evidence(i) /\ Placed(i)
  BY DEF StagePart, Executing, DistInv, JournalSound, StageSound, PlaceSound
<1>2. Pending = {i}
  BY <1>1, OnlyPending
<1>3. TypeOK'
  BY DEF DistInv, TypeOK, StagePart, Operation, packages
<1>4. Pending' = Pending
  BY DEF Pending, StagePart
<1>5. JournalSound'
  BY <1>4 DEF DistInv, JournalSound, Journal, Removal, Built, StagePart
<1>6. PlaceSound'
  <2>1. Placed(i)'
    BY <1>1 DEF Placed, Built, RecoveryOf, StagePart, Executing
  <2> QED
    BY <1>2, <1>4, <2>1 DEF DistInv, PlaceSound, Built, StagePart
<1>7. CommandSound'
  BY <1>4 DEF DistInv, CommandSound, Undecided, Decided, StagePart, Executing
<1>8. StageSound'
  <2>1. ops[i].tree # NoTree /\ ops[i].kind = "dist.new" => <<i, "tree">> \in stage \/ InPlace(i)
    BY <1>1 DEF Evidence, StagePart, Executing
  <2>2. ~InPlace(i) \/ ops[i].tree = NoTree
    BY <1>1, BuiltTree DEF InPlace, Placed, StagePart, Executing, Journal
  <2>3. Evidence(i)'
    BY <1>1, <2>1, <2>2 DEF Evidence, StagePart, Executing, Decided, Part
  <2> QED
    BY <1>2, <1>4, <2>3 DEF StageSound
<1>9. PackagesSound'
  <2>1. Len(ops) \in Nat
    BY DEF DistInv, TypeOK
  <2> QED
    BY <2>1, PackagesFrame DEF DistInv, StagePart, Executing
<1> QED
  BY <1>3, <1>5, <1>6, <1>7, <1>8, <1>9 DEF DistInv

-----------------------------------------------------------------------------
(* The journal *)

\* The record of the pending operation changes and stays pending; what is
\* left to show concerns that operation alone.
LEMMA RecordStep ==
  ASSUME DistInv, NEW i \in Pending,
         ops' \in Seq(OperationRecord), Len(ops') = Len(ops), Pending' = Pending,
         \A j \in 1 .. Len(ops) : j # i => ops'[j] = ops[j],
         ops'[i].name = ops[i].name,
         pc \in {"execute", "redo"},
         pc = "redo" => ops'[i].state # "planned" /\ config = ops'[i].new,
         UNCHANGED <<config, dists, disk, generations, packages, pc>>,
         Journal(i)', Placed(i)', Evidence(i)'
  PROVE  DistInv'
<1>1. Pending = {i} /\ i \in 1 .. Len(ops)
  BY OnlyPending
<1>2. TypeOK'
  BY DEF DistInv, TypeOK, Operation, disk, packages
<1>3. JournalSound' /\ StageSound'
  BY <1>1 DEF JournalSound, StageSound
<1>4. PlaceSound'
  BY <1>1 DEF DistInv, PlaceSound, Built, disk
<1>5. CommandSound'
  BY <1>1 DEF DistInv, CommandSound
<1>6. PackagesSound'
  <2>1. Len(ops) \in Nat
    BY DEF DistInv, TypeOK
  <2>2. \A j \in 1 .. Len(ops) : ops[j].state \in Terminal => ops'[j] = ops[j]
    BY DEF Pending
  <2> QED
    BY <2>1, <2>2, PackagesFrame DEF DistInv, disk
<1> QED
  BY <1>2, <1>3, <1>4, <1>5, <1>6 DEF DistInv

LEMMA UpdateOperationPayloadStep ==
  ASSUME DistInv, NEW i \in Operation, UpdateOperationPayload(i)
  PROVE  DistInv'
<1>1. i \in Pending /\ Journal(i) /\ Evidence(i) /\ Placed(i) /\ TypeOK /\ i \in 1 .. Len(ops)
  BY DEF UpdateOperationPayload, Executing, DistInv, JournalSound, StageSound, PlaceSound, Operation
<1>2. ops' = [ops EXCEPT ![i].tree = i]
  BY DEF UpdateOperationPayload
<1>3. /\ ops' \in Seq(OperationRecord) /\ Len(ops') = Len(ops) /\ Pending' = Pending
      /\ \A j \in 1 .. Len(ops) : j # i => ops'[j] = ops[j]
      /\ ops'[i].tree = i /\ ops'[i].kind = ops[i].kind /\ ops'[i].name = ops[i].name
      /\ ops'[i].state = ops[i].state /\ ops'[i].generation = ops[i].generation
      /\ ops'[i].old = ops[i].old /\ ops'[i].new = ops[i].new
  BY <1>1, <1>2, TreeSet
<1>4. Journal(i)'
  BY <1>1, <1>3 DEF Journal, Removal, Built, NoTree, UpdateOperationPayload, Executing
<1>5. Placed(i)'
  BY <1>1, <1>3 DEF Placed, Built, RecoveryOf, UpdateOperationPayload, Executing, disk
<1>6. Evidence(i)'
  BY <1>1, <1>3 DEF Evidence, UpdateOperationPayload, Executing, disk
<1> QED
  BY <1>1, <1>3, <1>4, <1>5, <1>6, RecordStep DEF UpdateOperationPayload, Executing

LEMMA SetStagedStep ==
  ASSUME DistInv, NEW i \in Operation, SetStaged(i)
  PROVE  DistInv'
<1>1. i \in Pending /\ Journal(i) /\ Evidence(i) /\ Placed(i) /\ TypeOK /\ i \in 1 .. Len(ops)
  BY DEF SetStaged, Executing, DistInv, JournalSound, StageSound, PlaceSound, Operation
<1>2. SetOperationState(i, "staged") /\ "staged" \in OperationState /\ "staged" \notin Terminal
  BY DEF SetStaged, OperationState, Terminal
<1>3. /\ ops' \in Seq(OperationRecord) /\ Len(ops') = Len(ops) /\ Pending' = Pending
      /\ \A j \in 1 .. Len(ops) : j # i => ops'[j] = ops[j]
      /\ ops'[i].tree = ops[i].tree /\ ops'[i].kind = ops[i].kind /\ ops'[i].name = ops[i].name
      /\ ops'[i].state = "staged" /\ ops'[i].generation = ops[i].generation
      /\ ops'[i].old = ops[i].old /\ ops'[i].new = ops[i].new
  BY <1>1, <1>2, StateSet
<1>4. Journal(i)'
  BY <1>1, <1>3 DEF Journal, Removal, Built, SetStaged, Executing
<1>5. Placed(i)'
  BY <1>1, <1>3 DEF Placed, Built, RecoveryOf, SetStaged, Executing, disk
<1>6. Evidence(i)'
  BY <1>1, <1>3 DEF Evidence, InPlace, Removal, SetStaged, Executing, disk
<1> QED
  BY <1>1, <1>3, <1>4, <1>5, <1>6, RecordStep DEF SetStaged, Executing

LEMMA SetAppliedStep ==
  ASSUME DistInv, NEW i \in Operation, SetApplied(i)
  PROVE  DistInv'
<1>1. i \in Pending /\ Journal(i) /\ Evidence(i) /\ Placed(i) /\ TypeOK /\ i \in 1 .. Len(ops)
  BY DEF SetApplied, DistInv, JournalSound, StageSound, PlaceSound, Operation
<1>2. SetOperationState(i, "applied") /\ "applied" \in OperationState /\ "applied" \notin Terminal
  BY DEF SetApplied, OperationState, Terminal
<1>3. /\ ops' \in Seq(OperationRecord) /\ Len(ops') = Len(ops) /\ Pending' = Pending
      /\ \A j \in 1 .. Len(ops) : j # i => ops'[j] = ops[j]
      /\ ops'[i].tree = ops[i].tree /\ ops'[i].kind = ops[i].kind /\ ops'[i].name = ops[i].name
      /\ ops'[i].state = "applied" /\ ops'[i].generation = ops[i].generation
      /\ ops'[i].old = ops[i].old /\ ops'[i].new = ops[i].new
  BY <1>1, <1>2, StateSet
<1>4. Journal(i)'
  BY <1>1, <1>3 DEF Journal, Removal, Built, SetApplied
<1>5. Placed(i)'
  BY <1>1, <1>3 DEF Placed, Built, RecoveryOf, SetApplied, disk
<1>6. Evidence(i)'
  BY <1>1, <1>3 DEF Evidence, InPlace, Removal, Decided, SetApplied, disk
<1> QED
  BY <1>1, <1>3, <1>4, <1>5, <1>6, RecordStep DEF SetApplied

LEMMA SetBuiltStep ==
  ASSUME DistInv, NEW i \in Operation, SetBuilt(i)
  PROVE  DistInv'
<1>1. i \in Pending /\ Journal(i) /\ Evidence(i) /\ Placed(i) /\ TypeOK /\ i \in 1 .. Len(ops)
  BY DEF SetBuilt, Applied, DistInv, JournalSound, StageSound, PlaceSound, Operation
<1>2. SetOperationState(i, "built") /\ "built" \in OperationState /\ "built" \notin Terminal
  BY DEF SetBuilt, OperationState, Terminal
<1>3. /\ ops' \in Seq(OperationRecord) /\ Len(ops') = Len(ops) /\ Pending' = Pending
      /\ \A j \in 1 .. Len(ops) : j # i => ops'[j] = ops[j]
      /\ ops'[i].tree = ops[i].tree /\ ops'[i].kind = ops[i].kind /\ ops'[i].name = ops[i].name
      /\ ops'[i].state = "built" /\ ops'[i].generation = ops[i].generation
      /\ ops'[i].old = ops[i].old /\ ops'[i].new = ops[i].new
  BY <1>1, <1>2, StateSet
<1>4. Journal(i)'
  BY <1>1, <1>3 DEF Journal, Removal, Built, SetBuilt, Applied
<1>5. Placed(i)'
  BY <1>1, <1>3 DEF Placed, InPlace, Removal, SetBuilt, disk
<1>6. Evidence(i)'
  BY <1>1, <1>3 DEF Evidence, InPlace, Removal, Decided, SetBuilt, Applied, disk
<1> QED
  BY <1>1, <1>3, <1>4, <1>5, <1>6, RecordStep DEF SetBuilt, Applied, Journal

\* Writing sow.yml decides the operation.
LEMMA WriteConfigStep ==
  ASSUME DistInv, NEW i \in Operation, WriteConfig(i)
  PROVE  DistInv'
<1>1. i \in Pending /\ Journal(i) /\ Evidence(i) /\ Placed(i)
  BY DEF WriteConfig, Executing, DistInv, JournalSound, StageSound, PlaceSound
<1>2. Pending = {i} /\ Pending' = Pending
  BY <1>1, OnlyPending DEF WriteConfig, Pending
<1>3. TypeOK'
  <2>1. ops[i].new \subseteq Dist
    BY <1>1, BuiltTree DEF OperationRecord
  <2> QED
    BY <2>1 DEF DistInv, TypeOK, WriteConfig, Operation, disk, packages
<1>4. JournalSound'
  BY <1>1, <1>2 DEF JournalSound, Journal, Removal, Built, WriteConfig, Executing
<1>5. PlaceSound'
  BY <1>2 DEF DistInv, PlaceSound, Placed, InPlace, Removal, Built, RecoveryOf, WriteConfig, disk
<1>6. CommandSound'
  BY <1>2 DEF CommandSound, WriteConfig, Executing
<1>7. StageSound'
  BY <1>1, <1>2 DEF StageSound, Evidence, InPlace, Removal, WriteConfig, Executing, disk
<1>8. PackagesSound'
  <2>1. Len(ops) \in Nat
    BY DEF DistInv, TypeOK
  <2> QED
    BY <2>1, PackagesFrame DEF DistInv, WriteConfig, Executing, disk
<1> QED
  BY <1>3, <1>4, <1>5, <1>6, <1>7, <1>8 DEF DistInv

\* An undecided operation is closed without a trace.
LEMMA CloseStep ==
  ASSUME DistInv, NEW i \in Operation, RollBack(i) \/ FailOperation(i)
  PROVE  DistInv'
<1>1. i \in Pending /\ Journal(i) /\ Placed(i) /\ TypeOK /\ i \in 1 .. Len(ops)
  BY DEF RollBack, FailOperation, DistInv, JournalSound, PlaceSound, Operation
<1>2. Undecided(i)
  BY <1>1 DEF RollBack, FailOperation, DistInv, CommandSound
<1>3. PICK s \in {"rolled_back", "failed"} : SetOperationState(i, s)
  BY DEF RollBack, FailOperation
<1>4. s \in OperationState /\ s \in Terminal
  BY <1>3 DEF OperationState, Terminal
<1>5. /\ ops' \in Seq(OperationRecord) /\ Len(ops') = Len(ops) /\ Pending' = Pending \ {i}
      /\ \A j \in 1 .. Len(ops) : j # i => ops'[j] = ops[j]
  BY <1>1, <1>3, <1>4, StateSet
<1>6. Pending = {i} /\ Pending' = {}
  BY <1>1, <1>5, OnlyPending
<1>7. TypeOK'
  BY <1>5 DEF DistInv, TypeOK, RollBack, FailOperation, Operation, disk, packages
<1>8. JournalSound' /\ StageSound'
  BY <1>6 DEF JournalSound, StageSound
<1>9. PlaceSound'
  <2>1. live[ops[i].name] = Built[ops[i].name]
    BY <1>1, <1>2 DEF Placed, Undecided
  <2>2. \A d \in Dist : live[d] = Built[d]
    BY <1>6, <2>1 DEF DistInv, PlaceSound
  <2> QED
    BY <1>6, <2>2 DEF DistInv, PlaceSound, Built, RollBack, FailOperation, disk
<1>10. CommandSound'
  BY <1>1, <1>2, <1>6 DEF CommandSound, Journal, Undecided, RollBack, FailOperation
<1>11. PackagesSound'
  <2>1. Len(ops) \in Nat
    BY DEF DistInv, TypeOK
  <2>2. \A j \in 1 .. Len(ops) : ops[j].state \in Terminal => ops'[j] = ops[j]
    BY <1>1, <1>5 DEF Pending
  <2> QED
    BY <1>5, <2>1, <2>2, PackagesFrame DEF DistInv, RollBack, FailOperation, disk
<1> QED
  BY <1>7, <1>8, <1>9, <1>10, <1>11 DEF DistInv

-----------------------------------------------------------------------------
(* The public tree *)

LEMMA InstallStagedDistStep ==
  ASSUME DistInv, NEW i \in Operation, InstallStagedDist(i)
  PROVE  DistInv'
<1>1. i \in Pending /\ Journal(i) /\ Evidence(i) /\ Placed(i)
  BY DEF InstallStagedDist, Applied, DistInv, JournalSound, StageSound, PlaceSound
<1>2. Pending = {i} /\ Pending' = Pending
  BY <1>1, OnlyPending DEF InstallStagedDist, Pending
<1>3. ops[i] \in OperationRecord /\ ops[i].name \in Dist /\ ops[i].tree \in Nat
  BY <1>1, BuiltTree DEF OperationRecord
<1>4. TypeOK'
  BY <1>3 DEF DistInv, TypeOK, InstallStagedDist, Operation, packages
<1>5. JournalSound'
  BY <1>2 DEF DistInv, JournalSound, Journal, Removal, Built, InstallStagedDist
<1>6. InPlace(i)'
  BY <1>3 DEF InPlace, Removal, InstallStagedDist, DistInv, TypeOK
<1>7. PlaceSound'
  <2>1. Placed(i)'
    BY <1>6 DEF Placed, InstallStagedDist, Applied
  <2>2. \A d \in Dist : d # ops[i].name => live'[d] = live[d]
    BY DEF InstallStagedDist, DistInv, TypeOK
  <2> QED
    BY <1>2, <2>1, <2>2 DEF DistInv, PlaceSound, Built, InstallStagedDist
<1>8. CommandSound'
  BY <1>2 DEF DistInv, CommandSound, Undecided, Decided, InstallStagedDist, Applied
<1>9. StageSound'
  <2>1. Evidence(i)'
    BY <1>1, <1>6 DEF Evidence, Decided, InstallStagedDist, Applied
  <2> QED
    BY <1>2, <2>1 DEF StageSound
<1>10. PackagesSound'
  <2>1. Len(ops) \in Nat
    BY DEF DistInv, TypeOK
  <2> QED
    BY <2>1, PackagesFrame DEF DistInv, InstallStagedDist, Applied
<1> QED
  BY <1>4, <1>5, <1>7, <1>8, <1>9, <1>10 DEF DistInv

LEMMA MoveDistToRecoveryStep ==
  ASSUME DistInv, NEW i \in Operation, MoveDistToRecovery(i)
  PROVE  DistInv'
<1>1. i \in Pending /\ Journal(i) /\ Evidence(i) /\ Placed(i)
  BY DEF MoveDistToRecovery, Applied, DistInv, JournalSound, StageSound, PlaceSound
<1>2. Pending = {i} /\ Pending' = Pending
  BY <1>1, OnlyPending DEF MoveDistToRecovery, Pending
<1>3. ops[i] \in OperationRecord /\ ops[i].name \in Dist /\ ops[i].tree \in Nat
  BY <1>1, BuiltTree DEF OperationRecord
<1>4. TypeOK'
  BY <1>3 DEF DistInv, TypeOK, MoveDistToRecovery, Operation, packages, NoTree
<1>5. JournalSound'
  BY <1>2 DEF DistInv, JournalSound, Journal, Removal, Built, MoveDistToRecovery
<1>6. InPlace(i)'
  BY <1>3 DEF InPlace, Removal, MoveDistToRecovery, DistInv, TypeOK
<1>7. PlaceSound'
  <2>1. Placed(i)'
    BY <1>6 DEF Placed, MoveDistToRecovery, Applied
  <2>2. \A d \in Dist : d # ops[i].name => live'[d] = live[d]
    BY DEF MoveDistToRecovery, DistInv, TypeOK
  <2> QED
    BY <1>2, <2>1, <2>2 DEF DistInv, PlaceSound, Built, MoveDistToRecovery
<1>8. CommandSound'
  BY <1>2 DEF DistInv, CommandSound, Undecided, Decided, MoveDistToRecovery, Applied
<1>9. StageSound'
  <2>1. ops'[i].kind = "dist.rm"
    BY DEF MoveDistToRecovery, Removal
  <2>2. Evidence(i)'
    BY <2>1 DEF Evidence
  <2> QED
    BY <1>2, <2>2 DEF StageSound
<1>10. PackagesSound'
  <2>1. \A j \in Leftover : RecoveryOf(j) # {} => j \in Leftover' /\ RecoveryOf(j)' # {}
    BY DEF Leftover, RecoveryOf, MoveDistToRecovery
  <2>2. \A p \in pending \ objects :
          \E j \in Leftover' : p \in ops[j].dropped /\ RecoveryOf(j)' # {}
    BY <2>1 DEF DistInv, PackagesSound, PendingOwned
  <2> QED
    BY <2>2 DEF DistInv, PackagesSound, PendingOwned, MoveDistToRecovery, Applied, packages
<1> QED
  BY <1>4, <1>5, <1>7, <1>8, <1>9, <1>10 DEF DistInv

-----------------------------------------------------------------------------
(* Finalisation *)

\* The recorded generation is the public tree, and the operation is no longer
\* pending: what is left concerns dist rows and packages.
LEMMA FinalizingStep ==
  ASSUME DistInv, NEW i \in Operation, Finalizing(i),
         ops' \in Seq(OperationRecord), Len(ops') = Len(ops),
         \A j \in 1 .. Len(ops) : j # i => ops'[j] = ops[j],
         ops'[i].state = "done",
         UNCHANGED <<config, disk>>,
         dists' = {d \in Dist : live[d] # NoTree},
         dists' \subseteq config
  PROVE  /\ Pending' = {}
         /\ generations' \in Seq([Dist -> Nat])
         /\ JournalSound' /\ PlaceSound' /\ CommandSound' /\ StageSound'
<1>1. i \in Pending /\ i \in 1 .. Len(ops)
  BY DEF Finalizing, Operation
<1>2. Pending = {i}
  BY <1>1, OnlyPending
<1>3. Pending' = {}
  BY <1>1, <1>2 DEF Pending, Terminal
<1>4. /\ generations \in Seq([Dist -> Nat]) /\ live \in [Dist -> Nat]
      /\ generations' = Append(generations, live)
  BY DEF DistInv, TypeOK, Finalizing
<1>5. generations' \in Seq([Dist -> Nat]) /\ Built' = live
  BY <1>4 DEF Built
<1>6. JournalSound' /\ StageSound'
  BY <1>3 DEF JournalSound, StageSound
<1>7. PlaceSound'
  BY <1>3, <1>5 DEF PlaceSound, disk
<1>8. CommandSound'
  BY <1>3 DEF CommandSound, Finalizing
<1> QED
  BY <1>3, <1>5, <1>6, <1>7, <1>8

LEMMA FinalizeDistAddStep ==
  ASSUME DistInv, NEW i \in Operation, FinalizeDistAdd(i)
  PROVE  DistInv'
<1>1. i \in Pending /\ Journal(i) /\ Placed(i) /\ TypeOK /\ i \in 1 .. Len(ops)
      /\ ops[i].state = "built" /\ InPlace(i) /\ ~Removal(i)
  BY DEF FinalizeDistAdd, Finalizing, DistInv, JournalSound, PlaceSound, Operation
<1>2. SetOperationState(i, "done") /\ "done" \in OperationState /\ "done" \in Terminal
  BY DEF FinalizeDistAdd, OperationState, Terminal
<1>3. /\ ops' \in Seq(OperationRecord) /\ Len(ops') = Len(ops) /\ ops'[i].state = "done"
      /\ \A j \in 1 .. Len(ops) : j # i => ops'[j] = ops[j]
  BY <1>1, <1>2, StateSet
<1>4. Pending = {i} /\ ops[i].name \in Dist
  BY <1>1, OnlyPending, BuiltTree
<1>5. live[ops[i].name] # NoTree
  BY <1>1 DEF InPlace, Journal
<1>6. dists' = {d \in Dist : live[d] # NoTree}
  BY <1>1, <1>4, <1>5 DEF DistInv, PlaceSound, FinalizeDistAdd
<1>7. dists' \subseteq config
  BY <1>1 DEF Journal, FinalizeDistAdd
<1>8. /\ Pending' = {} /\ generations' \in Seq([Dist -> Nat])
      /\ JournalSound' /\ PlaceSound' /\ CommandSound' /\ StageSound'
  BY <1>1, <1>3, <1>6, <1>7, FinalizingStep DEF FinalizeDistAdd
<1>9. TypeOK'
  BY <1>3, <1>4, <1>8 DEF DistInv, TypeOK, FinalizeDistAdd, Finalizing, Operation, disk, packages
<1>10. PackagesSound'
  <2>1. Len(ops) \in Nat
    BY DEF DistInv, TypeOK
  <2>2. \A j \in 1 .. Len(ops) : ops[j].state \in Terminal => ops'[j] = ops[j]
    BY <1>1, <1>3 DEF Pending
  <2> QED
    BY <1>3, <2>1, <2>2, PackagesFrame DEF DistInv, FinalizeDistAdd, Finalizing, disk
<1> QED
  BY <1>8, <1>9, <1>10 DEF DistInv

LEMMA FinalizeDistRemovalStep ==
  ASSUME DistInv, NEW i \in Operation, FinalizeDistRemoval(i)
  PROVE  DistInv'
<1> DEFINE d == ops[i].name
<1> DEFINE gone == Unreachable(d)
<1>1. i \in Pending /\ Journal(i) /\ Placed(i) /\ TypeOK /\ i \in 1 .. Len(ops)
      /\ ops[i].state = "built" /\ InPlace(i) /\ Removal(i)
  BY DEF FinalizeDistRemoval, Finalizing, DistInv, JournalSound, PlaceSound, Operation
<1>2. Pending = {i} /\ d \in Dist /\ ops[i] \in OperationRecord
  BY <1>1, OnlyPending, BuiltTree
<1>3. gone \subseteq Package /\ gone \subseteq objects
  BY <1>1 DEF Unreachable, TypeOK
<1> DEFINE r == [ops[i] EXCEPT !.state = "done", !.dropped = gone]
<1>4. ops' = [ops EXCEPT ![i] = r]
  BY DEF FinalizeDistRemoval
<1>5. r \in OperationRecord /\ r.state = "done" /\ r.dropped = gone
  BY <1>2, <1>3 DEF OperationRecord, OperationState, Terminal
<1>6. ops \in Seq(OperationRecord)
  BY DEF DistInv, TypeOK
<1> HIDE DEF r
<1>7. /\ ops' \in Seq(OperationRecord) /\ Len(ops') = Len(ops) /\ ops'[i] = r
      /\ \A j \in 1 .. Len(ops) : j # i => ops'[j] = ops[j]
  BY <1>1, <1>4, <1>5, <1>6
<1>8. live[d] = NoTree /\ <<i, ops[i].tree>> \in recovery
  BY <1>1 DEF InPlace
<1>9. dists' = {e \in Dist : live[e] # NoTree}
  BY <1>1, <1>2, <1>8 DEF DistInv, PlaceSound, FinalizeDistRemoval
<1>10. dists' \subseteq config
  BY <1>1 DEF Journal, FinalizeDistRemoval
<1>11. /\ Pending' = {} /\ generations' \in Seq([Dist -> Nat])
       /\ JournalSound' /\ PlaceSound' /\ CommandSound' /\ StageSound'
  BY <1>5, <1>7, <1>9, <1>10, FinalizingStep DEF FinalizeDistRemoval
<1>12. TypeOK'
  BY <1>7, <1>11 DEF DistInv, TypeOK, FinalizeDistRemoval, Finalizing, Operation, disk
<1>13. PackagesSound'
  <2>1. objects' = objects \ gone /\ pending' = pending /\ pooled' = pooled
    BY DEF FinalizeDistRemoval
  <2>2. \A e \in Dist : memberships'[e] = IF e = d THEN {} ELSE memberships[e]
    BY <1>2 DEF FinalizeDistRemoval, DistInv, TypeOK
  <2>3. \A e \in Dist : memberships'[e] \subseteq objects' \union pooled'
    BY <2>1, <2>2 DEF DistInv, PackagesSound, PendingOwned, Unreachable
  <2>4. \A j \in Nat : RecoveryOf(j)' = RecoveryOf(j) /\ PartsOf(j)' = PartsOf(j)
    BY DEF RecoveryOf, PartsOf, FinalizeDistRemoval, disk
  <2>5. i \in Leftover' /\ RecoveryOf(i)' # {} /\ ops'[i].dropped = gone
    BY <1>1, <1>5, <1>7, <1>8, <2>4 DEF Leftover, Terminal, RecoveryOf
  <2>6. \A j \in Leftover : j # i /\ j \in 1 .. Len(ops)
    BY <1>1 DEF Leftover, Pending
  <2>7. \A j \in Leftover : j \in Leftover' /\ ops'[j] = ops[j] /\ RecoveryOf(j)' = RecoveryOf(j)
    BY <1>7, <2>4, <2>6 DEF Leftover
  <2>8. \A p \in pending' \ objects' :
          \E j \in Leftover' : p \in ops'[j].dropped /\ RecoveryOf(j)' # {}
    BY <2>1, <2>5, <2>7 DEF DistInv, PackagesSound, PendingOwned
  <2> QED
    BY <2>1, <2>3, <2>8 DEF DistInv, PackagesSound, PendingOwned, FinalizeDistRemoval, Finalizing
<1> QED
  BY <1>11, <1>12, <1>13 DEF DistInv

-----------------------------------------------------------------------------
(* Leftovers *)

LEMMA RemoveDroppedPendingStep ==
  ASSUME DistInv, NEW i \in Operation, NEW p \in Package, RemoveDroppedPending(i, p)
  PROVE  DistInv'
<1>1. Pending' = Pending /\ Pending = {}
  BY DEF RemoveDroppedPending, Pending, DistInv, CommandSound
<1>2. TypeOK'
  BY DEF DistInv, TypeOK, RemoveDroppedPending, Operation, disk
<1>3. JournalSound' /\ StageSound'
  BY <1>1 DEF JournalSound, StageSound
<1>4. PlaceSound'
  BY <1>1 DEF DistInv, PlaceSound, Built, RemoveDroppedPending, disk
<1>5. CommandSound'
  BY <1>1 DEF DistInv, CommandSound, RemoveDroppedPending
<1>6. PackagesSound'
  <2>1. Leftover' = Leftover /\ \A j \in Leftover : RecoveryOf(j)' = RecoveryOf(j)
    BY DEF Leftover, PartsOf, RecoveryOf, RemoveDroppedPending, disk
  <2>2. p \notin objects
    BY DEF RemoveDroppedPending, Droppable
  <2> QED
    BY <2>1, <2>2 DEF DistInv, PackagesSound, PendingOwned, RemoveDroppedPending
<1> QED
  BY <1>2, <1>3, <1>4, <1>5, <1>6 DEF DistInv

\* A removal's recovery directory goes only after the bytes it has to delete.
LEMMA CleanupDistRecoveryStep ==
  ASSUME DistInv, NEW i \in Operation, CleanupDistRecovery(i)
  PROVE  DistInv'
<1>1. Pending' = Pending /\ Pending = {}
  BY DEF CleanupDistRecovery, Pending, DistInv, CommandSound
<1>2. TypeOK'
  BY DEF DistInv, TypeOK, CleanupDistRecovery, Operation, packages
<1>3. JournalSound' /\ StageSound'
  BY <1>1 DEF JournalSound, StageSound
<1>4. PlaceSound'
  BY <1>1 DEF DistInv, PlaceSound, Built, CleanupDistRecovery
<1>5. CommandSound'
  BY <1>1 DEF DistInv, CommandSound, CleanupDistRecovery
<1>6. PackagesSound'
  <2>1. \A j \in Nat : j # i => RecoveryOf(j)' = RecoveryOf(j)
    BY DEF RecoveryOf, CleanupDistRecovery
  <2>2. \A j \in Nat : PartsOf(j)' = PartsOf(j)
    BY DEF PartsOf, CleanupDistRecovery
  <2>3. \A j \in Leftover : j # i => j \in Leftover' /\ RecoveryOf(j)' = RecoveryOf(j)
    BY <2>1, <2>2 DEF Leftover, CleanupDistRecovery
  <2>4. ASSUME NEW p \in pending \ objects
        PROVE  \E j \in Leftover' : p \in ops[j].dropped /\ RecoveryOf(j)' # {}
    <3>1. PICK j \in Leftover : p \in ops[j].dropped /\ RecoveryOf(j) # {}
      BY <2>4 DEF DistInv, PackagesSound, PendingOwned
    <3>2. p \notin ops[i].dropped
      BY <2>4 DEF DistInv, PackagesSound, CleanupDistRecovery, Droppable
    <3> QED
      BY <2>3, <3>1, <3>2
  <2> QED
    BY <2>4 DEF DistInv, PackagesSound, PendingOwned, CleanupDistRecovery, packages
<1> QED
  BY <1>2, <1>3, <1>4, <1>5, <1>6 DEF DistInv

-----------------------------------------------------------------------------
(* New operations *)

\* A new record starts with nothing staged, set aside or decided.
LEMMA BeginStep ==
  ASSUME DistInv, NEW kind, NEW d \in Dist, NEW new \in SUBSET Dist, NEW tree \in Nat,
         kind \in {"dist.new", "dist.init", "dist.rm"},
         BeginOperation(kind, d, new, tree),
         pc \in {"ready", "more"}, pc' = "execute",
         UNCHANGED <<config, dists, disk, generations, packages>>,
         kind = "dist.rm" => d \in dists /\ new = config \ {d} /\ tree = live[d],
         kind # "dist.rm" =>
           /\ d \notin dists /\ new = config \union {d} /\ tree = NoTree
           /\ (kind = "dist.init") <=> (d \in config)
  PROVE  DistInv'
<1> DEFINE r == [kind |-> kind, name |-> d, state |-> "planned",
                 generation |-> Len(generations) + 1, old |-> config, new |-> new,
                 tree |-> tree, dropped |-> {}]
<1>1. TypeOK /\ Len(ops) \in Nat /\ Len(generations) \in Nat
  BY DEF DistInv, TypeOK
<1>0. PICK n \in Nat : n = Len(ops) + 1
  BY <1>1
<1>2. r \in OperationRecord
  BY <1>1 DEF OperationRecord, OperationState, TypeOK
<1>3. ops' = Append(ops, r)
  BY DEF BeginOperation
<1>4. r.kind = kind /\ r.name = d /\ r.state = "planned" /\ r.old = config /\ r.new = new
      /\ r.tree = tree /\ r.generation = Len(generations) + 1
  OBVIOUS
<1> HIDE DEF r
<1>5. Pending = {} /\ Leftover = {}
  BY DEF DistInv, CommandSound, PackagesSound
<1>6. /\ ops' \in Seq(OperationRecord) /\ Len(ops') = n /\ ops'[n] = r
      /\ \A j \in 1 .. Len(ops) : ops'[j] = ops[j]
      /\ Pending' = {n}
  BY <1>1, <1>2, <1>3, <1>4, <1>5, <1>0, Appended DEF Terminal
<1>7. (\A part \in Part : <<n, part>> \notin stage) /\ RecoveryOf(n)' = {}
  BY <1>1, <1>0 DEF TypeOK, Operation, RecoveryOf, disk
<1>8. TypeOK'
  <2>1. Operation \subseteq Operation'
    BY <1>1, <1>6, <1>0 DEF Operation
  <2> QED
    BY <1>6, <2>1 DEF DistInv, TypeOK, disk, packages
<1>9. live = Built /\ Built' = Built /\ live' = live
  <2>1. live \in [Dist -> Nat] /\ Built \in [Dist -> Nat]
    BY <1>1 DEF TypeOK, Built, NoTree
  <2> QED
    BY <1>5, <2>1 DEF DistInv, PlaceSound, Built, disk
<1>10. JournalSound'
  <2>1. dists \subseteq config
    BY <1>5 DEF DistInv, CommandSound
  <2>2. Journal(n)'
    BY <1>4, <1>6, <1>9, <2>1 DEF Journal, Removal
  <2> QED
    BY <1>6, <2>2 DEF JournalSound
<1>11. PlaceSound'
  <2>1. Placed(n)'
    BY <1>4, <1>6, <1>7, <1>9 DEF Placed
  <2> QED
    BY <1>6, <1>9, <2>1 DEF DistInv, PlaceSound
<1>12. CommandSound'
  BY <1>6 DEF CommandSound
<1>13. StageSound'
  <2>1. <<n, "tree">> \notin stage'
    BY <1>7 DEF Part, disk
  <2>2. Evidence(n)'
    BY <1>4, <1>6, <2>1 DEF Evidence
  <2> QED
    BY <1>6, <2>2 DEF StageSound
<1>14. PackagesSound'
  BY <1>1, <1>6, <1>0, PackagesFrame DEF DistInv, disk
<1> QED
  BY <1>8, <1>10, <1>11, <1>12, <1>13, <1>14 DEF DistInv

LEMMA NewDistStep ==
  ASSUME DistInv, NEW d \in Dist, NewDist(d)
  PROVE  DistInv'
<1>1. config \union {d} \in SUBSET Dist /\ NoTree \in Nat
  BY DEF DistInv, TypeOK, NoTree
<1>2. d \notin config /\ d \notin dists
  BY DEF NewDist, DistInv, CommandSound
<1> QED
  BY <1>1, <1>2, BeginStep DEF NewDist

LEMMA InitDistStep ==
  ASSUME DistInv, NEW d \in Dist, InitDist(d)
  PROVE  DistInv'
<1>1. config \in SUBSET Dist /\ NoTree \in Nat
  BY DEF DistInv, TypeOK, NoTree
<1>2. d \in config /\ d \notin dists /\ config = config \union {d}
  BY DEF InitDist
<1> QED
  BY <1>1, <1>2, BeginStep DEF InitDist

LEMMA RemoveDistStep ==
  ASSUME DistInv, NEW d \in Dist, RemoveDist(d)
  PROVE  DistInv'
<1>1. config \ {d} \in SUBSET Dist /\ live[d] \in Nat /\ d \in dists
  BY DEF DistInv, TypeOK, RemoveDist
<1> QED
  BY <1>1, BeginStep DEF RemoveDist

-----------------------------------------------------------------------------
(* The surroundings *)

LEMMA EditConfigStep ==
  ASSUME DistInv, NEW d \in Dist, EditConfig(d)
  PROVE  DistInv'
<1>1. Pending' = Pending /\ Pending = {}
  BY DEF EditConfig, Pending
<1>2. TypeOK'
  BY DEF DistInv, TypeOK, EditConfig, Operation, disk, packages
<1>3. JournalSound' /\ StageSound'
  BY <1>1 DEF JournalSound, StageSound
<1>4. PlaceSound'
  BY <1>1 DEF DistInv, PlaceSound, Built, EditConfig, disk
<1>5. CommandSound'
  BY <1>1 DEF DistInv, CommandSound, EditConfig
<1>6. PackagesSound'
  <2>1. Len(ops) \in Nat
    BY DEF DistInv, TypeOK
  <2> QED
    BY <2>1, PackagesFrame DEF DistInv, EditConfig, disk
<1> QED
  BY <1>2, <1>3, <1>4, <1>5, <1>6 DEF DistInv

LEMMA AddPackageStep ==
  ASSUME DistInv, NEW d \in Dist, NEW p \in Package, AddPackage(d, p)
  PROVE  DistInv'
<1>1. Pending' = Pending /\ Pending = {} /\ Leftover = {}
  BY DEF AddPackage, Pending, DistInv, CommandSound, PackagesSound
<1>2. \A e \in Dist : memberships'[e] = IF e = d THEN memberships[d] \union {p} ELSE memberships[e]
  BY DEF AddPackage, DistInv, TypeOK
<1>3. TypeOK'
  BY DEF DistInv, TypeOK, AddPackage, Operation, disk
<1>4. JournalSound' /\ StageSound'
  BY <1>1 DEF JournalSound, StageSound
<1>5. PlaceSound'
  BY <1>1 DEF DistInv, PlaceSound, Built, AddPackage, disk
<1>6. CommandSound'
  BY <1>1 DEF DistInv, CommandSound, AddPackage
<1>7. PackagesSound'
  <2>1. pending = objects
    BY <1>1 DEF DistInv, PackagesSound, PendingOwned
  <2>2. pending' = objects' /\ pooled' = pooled /\ pending' \intersect pooled' = {}
    BY <2>1 DEF DistInv, PackagesSound, AddPackage
  <2>3. objects \subseteq objects' /\ p \in objects' \union pooled'
    BY DEF AddPackage
  <2>4. \A e \in Dist : memberships'[e] \subseteq objects' \union pooled'
    BY <1>2, <2>2, <2>3 DEF DistInv, PackagesSound, PendingOwned
  <2> QED
    BY <2>2, <2>4 DEF PackagesSound, PendingOwned, AddPackage
<1> QED
  BY <1>3, <1>4, <1>5, <1>6, <1>7 DEF DistInv

LEMMA BuildDistStep ==
  ASSUME DistInv, NEW d \in Dist, BuildDist(d)
  PROVE  DistInv'
<1> DEFINE r == [kind |-> "build", name |-> d, state |-> "done",
                 generation |-> Len(generations) + 1, old |-> config, new |-> config,
                 tree |-> Len(ops) + 1, dropped |-> {}]
<1>1. TypeOK /\ Len(ops) \in Nat /\ Len(generations) \in Nat
  BY DEF DistInv, TypeOK
<1>2. r \in OperationRecord /\ r.state \in Terminal
  BY <1>1 DEF OperationRecord, OperationState, Terminal, TypeOK
<1>3. ops' = Append(ops, r)
  BY DEF BuildDist
<1> HIDE DEF r
<1>4. Pending = {} /\ Leftover = {}
  BY DEF DistInv, CommandSound, PackagesSound, BuildDist
<1>5. ops' \in Seq(OperationRecord) /\ Len(ops') = Len(ops) + 1 /\ Pending' = {}
  BY <1>1, <1>2, <1>3, <1>4, Appended
<1>6. generations' \in Seq([Dist -> Nat]) /\ Built' = live' /\ live' \in [Dist -> Nat]
  <2>1. live' \in [Dist -> Nat] /\ generations' = Append(generations, live')
    BY <1>1 DEF TypeOK, BuildDist
  <2> QED
    BY <1>1, <2>1 DEF TypeOK, Built
<1>7. TypeOK'
  <2>1. Operation \subseteq Operation'
    BY <1>1, <1>5 DEF Operation
  <2> QED
    BY <1>5, <1>6, <2>1 DEF DistInv, TypeOK, BuildDist
<1>8. JournalSound' /\ StageSound'
  BY <1>5 DEF JournalSound, StageSound
<1>9. PlaceSound'
  <2>1. \A e \in Dist : live[e] = Built[e]
    BY <1>4 DEF DistInv, PlaceSound
  <2>2. \A e \in Dist : live'[e] = IF e = d THEN Len(ops) + 1 ELSE live[e]
    BY <1>1 DEF TypeOK, BuildDist
  <2>3. d \in dists /\ dists' = dists /\ Len(ops) + 1 # NoTree
    BY <1>1 DEF BuildDist, NoTree
  <2> QED
    BY <1>5, <1>6, <2>1, <2>2, <2>3 DEF DistInv, PlaceSound
<1>10. CommandSound'
  BY <1>4, <1>5 DEF DistInv, CommandSound, BuildDist
<1>11. PackagesSound'
  <2>1. pending = objects
    BY <1>4 DEF DistInv, PackagesSound, PendingOwned
  <2> QED
    BY <2>1 DEF DistInv, PackagesSound, PendingOwned, BuildDist
<1> QED
  BY <1>7, <1>8, <1>9, <1>10, <1>11 DEF DistInv

-----------------------------------------------------------------------------
(* The invariant *)

LEMMA DistInvInit ==
  ASSUME Init
  PROVE  DistInv
<1>1. TypeOK
  BY DEF Init, TypeOK, NoTree, OperationRecord
<1>2. Pending = {} /\ Leftover = {}
  BY DEF Init, Pending, Leftover
<1>3. live = Built /\ \A d \in Dist : live[d] = NoTree
  BY DEF Init, Built
<1>4. PlaceSound
  BY <1>2, <1>3 DEF PlaceSound, Init
<1>5. JournalSound /\ StageSound /\ CommandSound
  BY <1>2 DEF JournalSound, StageSound, CommandSound, Init
<1>6. PackagesSound
  BY <1>2 DEF PackagesSound, PendingOwned, Init
<1> QED
  BY <1>1, <1>4, <1>5, <1>6 DEF DistInv

LEMMA DistInvStutter ==
  ASSUME DistInv, UNCHANGED vars
  PROVE  DistInv'
<1> USE DEF vars, disk, packages
<1>1. TypeOK'
  BY DEF DistInv, TypeOK, Operation
<1>2. Pending' = Pending /\ Leftover' = Leftover /\ Built' = Built
  BY DEF Pending, Leftover, PartsOf, RecoveryOf, Built
<1>3. JournalSound'
  BY <1>2 DEF DistInv, JournalSound, Journal, Removal
<1>4. PlaceSound'
  BY <1>2 DEF DistInv, PlaceSound, Placed, InPlace, Removal, RecoveryOf
<1>5. CommandSound'
  BY <1>2 DEF DistInv, CommandSound, Undecided, Decided
<1>6. StageSound'
  BY <1>2 DEF DistInv, StageSound, Evidence, InPlace, Removal, Decided
<1>7. PackagesSound'
  BY <1>2 DEF DistInv, PackagesSound, PendingOwned, RecoveryOf
<1> QED
  BY <1>1, <1>3, <1>4, <1>5, <1>6, <1>7 DEF DistInv

LEMMA DistInvNext ==
  ASSUME DistInv, Next
  PROVE  DistInv'
<1>1. CASE Start
  BY <1>1, StartStep
<1>2. CASE Recover
  BY <1>2, TakeUpStep, CloseStep, StageRemovalStep, RecoverNoneStep, CheckStep DEF Recover
<1>3. CASE Tidy
  BY <1>3, StageRemovalStep, RemoveDroppedPendingStep, CleanupDistRecoveryStep, FinishStep DEF Tidy
<1>4. CASE Begin
  BY <1>4, NewDistStep, InitDistStep, RemoveDistStep DEF Begin
<1>5. CASE Noop
  BY <1>5, NoopStep
<1>6. CASE Execute
  BY <1>6, StagePartStep, UpdateOperationPayloadStep, SetStagedStep, WriteConfigStep,
     SetAppliedStep, InstallStagedDistStep, MoveDistToRecoveryStep, SetBuiltStep,
     FinalizeDistAddStep, FinalizeDistRemovalStep DEF Execute
<1>7. CASE Failure
  BY <1>7, FailStep, CloseStep, StageRemovalStep DEF Failure
<1>8. CASE Stop
  BY <1>8, StopStep
<1>9. CASE Surroundings
  BY <1>9, EditConfigStep, BuildDistStep, AddPackageStep DEF Surroundings
<1> QED
  BY <1>1, <1>2, <1>3, <1>4, <1>5, <1>6, <1>7, <1>8, <1>9 DEF Next

\* The journal discipline of executeDistAdd, executeDistRemove and
\* recoverDistOperations: the inductive invariant holds of every behaviour.
THEOREM DistInvariance == Spec => []DistInv
<1>1. Init => DistInv
  BY DistInvInit
<1>2. DistInv /\ [Next]_vars => DistInv'
  BY DistInvNext, DistInvStutter
<1> QED
  BY <1>1, <1>2, PTL DEF Spec

-----------------------------------------------------------------------------
(* The safety properties *)

\* TypeOK: directories under .sow/<repo>/stage and recovery always belong to
\* an operation that the ledger has recorded.
THEOREM DistTypeCorrect == Spec => []TypeOK
<1>1. DistInv => TypeOK
  BY DEF DistInv
<1> QED
  BY <1>1, DistInvariance, PTL

LEMMA SettledFollows ==
  ASSUME DistInv
  PROVE  Settled
<1>1. live \in [Dist -> Nat] /\ Built \in [Dist -> Nat]
  BY DEF DistInv, TypeOK, Built, NoTree
<1>2. Pending = {} => \A d \in Dist : live[d] = Built[d]
  BY DEF DistInv, PlaceSound
<1>3. Pending = {} => live = Built
  BY <1>1, <1>2
<1> QED
  BY <1>3 DEF Settled, Served, DistInv, PlaceSound, CommandSound

\* When no operation is pending, sow.yml, the dist rows, the last generation
\* and the public tree agree, for whatever sequence of crashes led there.
THEOREM SettledHolds == Spec => []Settled
<1>1. DistInv => Settled
  BY SettledFollows
<1> QED
  BY <1>1, DistInvariance, PTL

LEMMA BuiltTreesFollow ==
  ASSUME DistInv
  PROVE  BuiltTreesKept
<1> SUFFICES ASSUME NEW d \in Dist, Built[d] # NoTree, live[d] # Built[d]
             PROVE  \E i \in Pending :
                      Removal(i) /\ ops[i].name = d /\ <<i, Built[d]>> \in recovery
  BY DEF BuiltTreesKept
<1>1. PICK i \in Pending : ops[i].name = d
  BY DEF DistInv, PlaceSound
<1>2. Journal(i) /\ Placed(i)
  BY <1>1 DEF DistInv, JournalSound, PlaceSound
<1>3. d \in dists
  BY DEF DistInv, PlaceSound
<1>4. Removal(i) /\ ops[i].tree = Built[d]
  BY <1>1, <1>2, <1>3 DEF Journal
<1>5. ops[i].state \in {"planned", "staged", "applied", "built"}
  <2>1. ops[i] \in OperationRecord
    BY <1>1, BuiltTree
  <2> QED
    BY <1>1, <2>1 DEF OperationRecord, OperationState, Pending
<1>6. InPlace(i)
  BY <1>1, <1>2, <1>5 DEF Placed
<1> QED
  BY <1>1, <1>4, <1>6 DEF InPlace

\* moveDistToRecovery and FinalizeDistRemovalAndCollect never lose a tree of
\* the last generation.
THEOREM BuiltTreesKeptHolds == Spec => []BuiltTreesKept
<1>1. DistInv => BuiltTreesKept
  BY BuiltTreesFollow
<1> QED
  BY <1>1, DistInvariance, PTL

LEMMA RecoverableFollows ==
  ASSUME DistInv
  PROVE  DecidedRecoverable
<1> SUFFICES ASSUME NEW i \in Pending, Decided(i), ops[i].kind # "dist.init"
             PROVE  Admitted(i) /\ MustRedo(i) /\ (InPlace(i) \/ Placeable(i))
  BY DEF DecidedRecoverable
<1>1. Journal(i) /\ Placed(i) /\ Evidence(i)
  BY DEF DistInv, JournalSound, PlaceSound, StageSound
<1>2. ops[i].old # ops[i].new
  BY <1>1, OldAndNew
<1>3. ops[i].state \in {"staged", "applied", "built"} /\ config = ops[i].new
  BY <1>1 DEF Decided, Journal
<1>4. /\ ops[i] \in OperationRecord
      /\ ops[i].name \in dists => Built[ops[i].name] # NoTree
      /\ ops[i].name \notin dists => Built[ops[i].name] = NoTree
  BY BuiltTree
<1>5. ops[i].kind \in {"dist.new", "dist.rm"}
  BY <1>1, <1>4 DEF OperationRecord, Journal
<1>6. ops[i].tree # NoTree
  BY <1>1, <1>3 DEF Journal
<1>7. ~Removal(i) =>
        /\ <<i, "tree">> \in stage \/ InPlace(i)
        /\ ops[i].name \in Signed => <<i, "signer">> \in stage
  BY <1>1, <1>5, <1>6 DEF Evidence, Removal
<1>8. Admitted(i)
  BY <1>1, <1>2, <1>6, <1>7 DEF Admitted, Journal
<1>9. MustRedo(i)
  BY <1>2, <1>3 DEF MustRedo, MustUndo
<1>10. InPlace(i) \/ (live[ops[i].name] = Built[ops[i].name] /\ RecoveryOf(i) = {})
  BY <1>1, <1>3 DEF Placed
<1>11. InPlace(i) \/ Placeable(i)
  BY <1>1, <1>4, <1>6, <1>7, <1>10 DEF Placeable, Journal
<1> QED
  BY <1>8, <1>9, <1>11

\* Once sow.yml is written, validateDistPayloadForRecovery admits the journal
\* of a new or rm, recovery completes it, and its tree is there to be placed.
THEOREM DecidedRecoverableHolds == Spec => []DecidedRecoverable
<1>1. DistInv => DecidedRecoverable
  BY RecoverableFollows
<1> QED
  BY <1>1, DistInvariance, PTL

\* cleanupDroppedPending and FinalizeDistRemovalAndCollect never take away a
\* package that another dist holds, and lose track of no pending payload.
THEOREM PendingOwnedHolds == Spec => []PendingOwned
<1>1. DistInv => PendingOwned
  BY DEF DistInv, PackagesSound
<1> QED
  BY <1>1, DistInvariance, PTL

\* Whenever no operation is open the ledger, the public tree and sow.yml agree,
\* and no removal has taken bytes away that another dist holds.
THEOREM DistSafeHolds == Spec => []DistSafe
BY DistTypeCorrect, SettledHolds, PendingOwnedHolds, PTL DEF DistSafe

-----------------------------------------------------------------------------
(* DistLifecycle implements DistContract *)

\* A step that nobody sees from outside.
Silent == Intended' = Intended /\ Served' = Served

LEMMA NothingDecided ==
  ASSUME DistInv, \A i \in Pending : ~Decided(i)
  PROVE  Intended = dists /\ Served = dists
<1>1. Intended = dists
  BY DEF Intended, DistInv, TypeOK
<1>2. ASSUME NEW d \in Dist
      PROVE  live[d] = Built[d]
  <2>1. CASE \E i \in Pending : ops[i].name = d
    <3>1. PICK i \in Pending : ops[i].name = d
      BY <2>1
    <3>2. ops[i] \in OperationRecord
      BY BuiltTree
    <3>3. ops[i].state \in {"planned", "staged"}
      BY <3>2 DEF OperationRecord, OperationState, Pending, Decided
    <3> QED
      BY <3>1, <3>3 DEF DistInv, PlaceSound, Placed
  <2> QED
    BY <2>1 DEF DistInv, PlaceSound
<1> QED
  BY <1>1, <1>2 DEF Served, DistInv, PlaceSound

LEMMA OneDecided ==
  ASSUME DistInv, NEW i \in Pending, Decided(i)
  PROVE  Intended = IF Removal(i) THEN dists \ {ops[i].name} ELSE dists \union {ops[i].name}
<1>1. Pending = {i} /\ ops[i].name \in Dist /\ dists \subseteq Dist
  BY OnlyPending, BuiltTree DEF DistInv, TypeOK
<1> QED
  BY <1>1 DEF Intended

\* Steps that leave the ledger's decisions and the public tree alone.
LEMMA SilentStep ==
  ASSUME UNCHANGED <<live, dists>>, Pending' = Pending,
         \A i \in Pending : /\ Decided(i)' <=> Decided(i)
                            /\ ops'[i].name = ops[i].name
                            /\ ops'[i].kind = ops[i].kind
  PROVE  Silent
  BY DEF Silent, Intended, Served, Removal

LEMMA SilentSteps ==
  ASSUME DistInv,
         \/ Start \/ RecoverNone \/ Check \/ Finish \/ Noop \/ Stop
         \/ \E i \in Operation : TakeUp(i) \/ CleanupDistRecovery(i) \/ Fail(i)
         \/ \E i \in Operation, part \in Part :
              \/ UndoStage(i, part) \/ TidyStage(i, part) \/ StagePart(i, part)
              \/ FailStage(i, part)
         \/ \E i \in Operation, p \in Package : RemoveDroppedPending(i, p)
         \/ \E d \in Dist, p \in Package : AddPackage(d, p)
         \/ UNCHANGED vars
  PROVE  Silent
<1>1. UNCHANGED <<config, dists, live, ops>>
  BY DEF Start, RecoverNone, Check, Finish, Noop, Stop, TakeUp, CleanupDistRecovery, Fail,
         UndoStage, TidyStage, StagePart, FailStage, RemovePart, RemoveDroppedPending,
         AddPackage, disk, vars
<1>2. Pending' = Pending /\ \A i \in Pending : Decided(i)' <=> Decided(i)
  BY <1>1 DEF Pending, Decided
<1> QED
  BY <1>1, <1>2, SilentStep

\* An operation begins, or is closed undecided, or none is pending.
LEMMA UndecidedStep ==
  ASSUME DistInv, UNCHANGED dists, Served' = Served,
         \A i \in Pending : ~Decided(i),
         \A i \in Pending' : ~Decided(i)'
  PROVE  Silent
<1>1. Intended = dists
  BY NothingDecided
<1>2. Intended' = dists'
  BY DEF Intended, DistInv, TypeOK
<1> QED
  BY <1>1, <1>2 DEF Silent

LEMMA BeginSilent ==
  ASSUME DistInv, NEW d \in Dist, NewDist(d) \/ InitDist(d) \/ RemoveDist(d)
  PROVE  Silent
<1>1. PICK r : ops' = Append(ops, r) /\ r.state = "planned"
  BY DEF NewDist, InitDist, RemoveDist, BeginOperation
<1>2. ops \in Seq(OperationRecord) /\ Pending = {}
  BY DEF NewDist, InitDist, RemoveDist, DistInv, TypeOK, CommandSound
<1>3. \A i \in 1 .. Len(ops') : ops'[i] = IF i = Len(ops) + 1 THEN r ELSE ops[i]
  BY <1>1, <1>2
<1>4. \A i \in Pending' : ops'[i].state = "planned"
  BY <1>1, <1>2, <1>3 DEF Pending
<1>5. \A i \in Pending' : ~Decided(i)'
  BY <1>4 DEF Decided
<1>6. UNCHANGED <<dists, live>>
  BY DEF NewDist, InitDist, RemoveDist, disk
<1> QED
  BY <1>2, <1>5, <1>6, UndecidedStep DEF Served

LEMMA CloseSilent ==
  ASSUME DistInv, NEW i \in Operation, RollBack(i) \/ FailOperation(i)
  PROVE  Silent
<1>1. i \in Pending /\ TypeOK /\ i \in 1 .. Len(ops)
  BY DEF RollBack, FailOperation, DistInv, Operation
<1>2. \A j \in Pending : ~Decided(j)
  BY DEF RollBack, FailOperation, DistInv, CommandSound, Undecided
<1>3. PICK s \in {"rolled_back", "failed"} : SetOperationState(i, s)
  BY DEF RollBack, FailOperation
<1>4. Pending' = {}
  <2>1. s \in OperationState /\ s \in Terminal
    BY <1>3 DEF OperationState, Terminal
  <2> QED
    BY <1>1, <1>3, <2>1, StateSet, OnlyPending
<1>5. UNCHANGED <<dists, live>>
  BY DEF RollBack, FailOperation, disk
<1> QED
  BY <1>2, <1>4, <1>5, UndecidedStep DEF Served

LEMMA SurroundingsSilent ==
  ASSUME DistInv, NEW d \in Dist, EditConfig(d) \/ BuildDist(d)
  PROVE  Silent
<1>1. Pending = {} /\ UNCHANGED dists
  BY DEF EditConfig, BuildDist, DistInv, CommandSound
<1>2. CASE EditConfig(d)
  <2>1. Pending' = {} /\ Served' = Served
    BY <1>1, <1>2 DEF EditConfig, Pending, Served, disk
  <2> QED
    BY <1>1, <2>1, UndecidedStep
<1>3. CASE BuildDist(d)
  <2>1. ops \in Seq(OperationRecord) /\ Len(ops) \in Nat
    BY DEF DistInv, TypeOK
  <2>2. Pending' = {}
    BY <1>1, <1>3, <2>1 DEF BuildDist, Pending, Terminal
  <2>3. Served = dists
    BY <1>1, NothingDecided
  <2>4. Served' = Served
    BY <1>3, <2>1, <2>3 DEF BuildDist, Served, NoTree, DistInv, TypeOK
  <2> QED
    BY <1>1, <2>2, <2>4, UndecidedStep
<1> QED
  BY <1>2, <1>3

\* The ledger follows what has been decided.
LEMMA RecordSilent ==
  ASSUME DistInv, NEW i \in Operation,
         UpdateOperationPayload(i) \/ SetStaged(i) \/ SetBuilt(i)
  PROVE  Silent
<1>1. i \in Pending /\ Journal(i) /\ TypeOK /\ i \in 1 .. Len(ops)
  BY DEF UpdateOperationPayload, SetStaged, SetBuilt, Executing, Applied, DistInv, JournalSound,
         Operation
<1>2. Pending = {i}
  BY <1>1, OnlyPending
<1>3. UNCHANGED <<config, live, dists>>
  BY DEF UpdateOperationPayload, SetStaged, SetBuilt, disk
<1>4. CASE UpdateOperationPayload(i)
  <2>1. Pending' = Pending /\ ops'[i].state = ops[i].state /\ ops'[i].kind = ops[i].kind
        /\ ops'[i].name = ops[i].name /\ ops'[i].new = ops[i].new
    BY <1>1, <1>4, TreeSet DEF UpdateOperationPayload
  <2> QED
    BY <1>2, <1>3, <2>1, SilentStep DEF Decided
<1>5. CASE SetStaged(i)
  <2>1. "staged" \in OperationState /\ "staged" \notin Terminal
    BY DEF OperationState, Terminal
  <2>2. Pending' = Pending /\ ops'[i].state = "staged" /\ ops'[i].kind = ops[i].kind
        /\ ops'[i].name = ops[i].name /\ ops'[i].new = ops[i].new
    BY <1>1, <1>5, <2>1, StateSet DEF SetStaged
  <2>3. ~Decided(i)'
    BY <1>1, <1>3, <1>5, <2>2, OldAndNew DEF Decided, Journal, SetStaged, Executing
  <2> QED
    BY <1>2, <1>3, <1>5, <2>2, <2>3, SilentStep DEF Decided, SetStaged, Executing
<1>6. CASE SetBuilt(i)
  <2>1. "built" \in OperationState /\ "built" \notin Terminal
    BY DEF OperationState, Terminal
  <2>2. Pending' = Pending /\ ops'[i].state = "built" /\ ops'[i].kind = ops[i].kind
        /\ ops'[i].name = ops[i].name /\ ops'[i].new = ops[i].new
    BY <1>1, <1>6, <2>1, StateSet DEF SetBuilt
  <2> QED
    BY <1>2, <1>3, <1>6, <2>2, SilentStep DEF Decided, SetBuilt, Applied
<1> QED
  BY <1>4, <1>5, <1>6

\* A generation records what has been decided and placed.
LEMMA FinalizeSilent ==
  ASSUME DistInv, NEW i \in Operation, FinalizeDistAdd(i) \/ FinalizeDistRemoval(i)
  PROVE  Silent
<1>1. i \in Pending /\ ops[i].state = "built" /\ i \in 1 .. Len(ops)
  BY DEF FinalizeDistAdd, FinalizeDistRemoval, Finalizing, Operation
<1>2. Intended = IF Removal(i) THEN dists \ {ops[i].name} ELSE dists \union {ops[i].name}
  BY <1>1, OneDecided DEF Decided
<1>3. dists' = Intended /\ live' = live
  BY <1>2 DEF FinalizeDistAdd, FinalizeDistRemoval, disk
<1>4. Pending' = {}
  <2>1. Pending = {i} /\ ops \in Seq(OperationRecord) /\ ops[i] \in OperationRecord
    BY <1>1, OnlyPending, BuiltTree DEF DistInv, TypeOK
  <2>2. \A dropped :
          LET r == [ops[i] EXCEPT !.state = "done"]
              q == [ops[i] EXCEPT !.state = "done", !.dropped = dropped]
          IN r.state = "done" /\ q.state = "done"
    BY <2>1 DEF OperationRecord
  <2>3. CASE FinalizeDistAdd(i)
    <3>1. ops' = [ops EXCEPT ![i] = [ops[i] EXCEPT !.state = "done"]]
      BY <2>3 DEF FinalizeDistAdd, SetOperationState
    <3> QED
      BY <1>1, <2>1, <2>2, <3>1 DEF Pending, Terminal
  <2>4. CASE FinalizeDistRemoval(i)
    <3>1. PICK dropped :
            ops' = [ops EXCEPT ![i] = [ops[i] EXCEPT !.state = "done", !.dropped = dropped]]
      BY <2>4 DEF FinalizeDistRemoval
    <3> QED
      BY <1>1, <2>1, <2>2, <3>1 DEF Pending, Terminal
  <2> QED
    BY <2>3, <2>4
<1>5. Intended' = dists'
  BY <1>3, <1>4 DEF Intended
<1> QED
  BY <1>3, <1>5 DEF Silent, Served

\* Writing sow.yml is the decision of a new or rm.
LEMMA WriteConfigDecides ==
  ASSUME DistInv, NEW i \in Operation, WriteConfig(i)
  PROVE  Contract!Decide(ops[i].name)
<1>1. i \in Pending /\ Journal(i) /\ ops[i].state = "staged" /\ ops[i].old # ops[i].new
  BY DEF WriteConfig, Executing, DistInv, JournalSound
<1>2. Pending = {i} /\ Pending' = Pending /\ ops[i].name \in Dist /\ dists \subseteq Dist
  BY <1>1, OnlyPending, BuiltTree DEF WriteConfig, Pending, DistInv, TypeOK
<1>3. ops[i].kind # "dist.init"
  BY <1>1 DEF Journal, Removal
<1>4. ~Decided(i) /\ Decided(i)'
  BY <1>1, <1>3 DEF Decided, WriteConfig
<1>5. Intended = dists /\ Served = dists
  BY <1>2, <1>4, NothingDecided
<1>6. Intended' = IF Removal(i) THEN dists \ {ops[i].name} ELSE dists \union {ops[i].name}
  BY <1>2, <1>4 DEF Intended, Removal, WriteConfig
<1>7. Served' = Served
  BY DEF Served, WriteConfig, disk
<1>8. Removal(i) <=> ops[i].name \in dists
  BY <1>1 DEF Journal
<1> QED
  BY <1>5, <1>6, <1>7, <1>8 DEF Contract!Decide

\* The applied state decides an initialisation; a new or rm already was.
LEMMA SetAppliedDecides ==
  ASSUME DistInv, NEW i \in Operation, SetApplied(i)
  PROVE  Silent \/ Contract!Decide(ops[i].name)
<1>1. i \in Pending /\ Journal(i) /\ TypeOK /\ i \in 1 .. Len(ops)
      /\ ops[i].state = "staged" /\ config = ops[i].new
  BY DEF SetApplied, DistInv, JournalSound, Operation
<1>2. Pending = {i} /\ ops[i].name \in Dist /\ dists \subseteq Dist
  BY <1>1, OnlyPending, BuiltTree DEF DistInv, TypeOK
<1>3. "applied" \in OperationState /\ "applied" \notin Terminal
  BY DEF OperationState, Terminal
<1>4. Pending' = Pending /\ ops'[i].state = "applied" /\ ops'[i].kind = ops[i].kind
      /\ ops'[i].name = ops[i].name
  BY <1>1, <1>3, StateSet DEF SetApplied
<1>5. Decided(i)' /\ UNCHANGED <<config, live, dists>>
  BY <1>4 DEF Decided, SetApplied, disk
<1>6. CASE ops[i].kind # "dist.init"
  <2>1. Decided(i)
    BY <1>1, <1>6 DEF Decided
  <2> QED
    BY <1>2, <1>4, <1>5, <2>1, SilentStep
<1>7. CASE ops[i].kind = "dist.init"
  <2>1. ~Decided(i) /\ ~Removal(i) /\ ops[i].name \notin dists
    BY <1>1, <1>7 DEF Decided, Removal, Journal
  <2>2. Intended = dists /\ Served = dists
    BY <1>2, <2>1, NothingDecided
  <2>3. Intended' = dists \union {ops[i].name}
    BY <1>2, <1>4, <1>5, <2>1 DEF Intended, Removal
  <2>4. Served' = Served
    BY <1>5 DEF Served
  <2> QED
    BY <2>1, <2>2, <2>3, <2>4 DEF Contract!Decide
<1> QED
  BY <1>6, <1>7

\* Renaming the tree is what clients see.
LEMMA RenameRealises ==
  ASSUME DistInv, NEW i \in Operation, InstallStagedDist(i) \/ MoveDistToRecovery(i)
  PROVE  Contract!Realise
<1> DEFINE d == ops[i].name
<1>1. i \in Pending /\ Journal(i) /\ ops[i].state = "applied" /\ Placeable(i) /\ ops[i].tree # NoTree
  BY DEF InstallStagedDist, MoveDistToRecovery, Applied, DistInv, JournalSound, Journal
<1>2. Pending = {i} /\ d \in Dist /\ dists \subseteq Dist /\ live \in [Dist -> Nat]
  BY <1>1, OnlyPending, BuiltTree DEF DistInv, TypeOK
<1>3. Intended = IF Removal(i) THEN dists \ {d} ELSE dists \union {d}
  BY <1>1, OneDecided DEF Decided
<1>4. Pending' = Pending /\ UNCHANGED <<config, dists, ops>>
  BY DEF InstallStagedDist, MoveDistToRecovery, Pending
<1>5. Intended' = Intended
  BY <1>4 DEF Intended, Decided, Removal
<1>6. \A e \in Dist : e # d => (e \in Served <=> e \in dists)
  BY <1>2 DEF Served, DistInv, PlaceSound
<1>7. \A e \in Dist : e # d => live'[e] = live[e]
  BY <1>2 DEF InstallStagedDist, MoveDistToRecovery
<1>8. live'[d] = IF Removal(i) THEN NoTree ELSE ops[i].tree
  BY <1>2 DEF InstallStagedDist, MoveDistToRecovery
<1>9. d \in Served <=> Removal(i)
  BY <1>1, <1>2 DEF Placeable, Served
<1>10. Served' = Intended
  BY <1>1, <1>2, <1>3, <1>6, <1>7, <1>8 DEF Served
<1>11. Served # Intended
  BY <1>3, <1>9
<1> QED
  BY <1>5, <1>10, <1>11 DEF Contract!Realise

\* Seen from outside, dist new, dist rm and dist init decide once, show their
\* effect in one rename, and no crash or recovery takes a decision back.
THEOREM DistContractHolds == Spec => ContractKept
<1>1. Init => Contract!Init
  BY DEF Init, Contract!Init, Intended, Served, Pending
<1>2. ASSUME DistInv, DistInv', [Next]_vars
      PROVE  [Contract!Next]_<<Intended, Served>>
  <2>1. CASE \/ Start \/ Recover \/ Tidy \/ Begin \/ Noop \/ Failure \/ Stop \/ Surroundings
             \/ UNCHANGED vars
    <3>1. Silent
      BY <1>2, <2>1, SilentSteps, BeginSilent, CloseSilent, SurroundingsSilent
         DEF Recover, Tidy, Begin, Failure, Surroundings
    <3> QED
      BY <3>1 DEF Silent
  <2>2. CASE Execute
    <3>1. ASSUME NEW i \in Operation, WriteConfig(i) \/ SetApplied(i)
          PROVE  Silent \/ \E d \in Dist : Contract!Decide(d)
      <4>1. ops[i].name \in Dist
        BY <1>2, <3>1, BuiltTree DEF WriteConfig, SetApplied, Executing
      <4> QED
        BY <1>2, <3>1, <4>1, WriteConfigDecides, SetAppliedDecides
    <3>2. Silent \/ Contract!Realise \/ \E d \in Dist : Contract!Decide(d)
      BY <1>2, <2>2, <3>1, SilentSteps, RecordSilent, FinalizeSilent, RenameRealises DEF Execute
    <3> QED
      BY <3>2 DEF Silent, Contract!Next
  <2> QED
    BY <1>2, <2>1, <2>2 DEF Next
<1> QED
  BY <1>1, <1>2, DistInvariance, PTL DEF Spec, ContractKept, Contract!Spec
=============================================================================
