---------------------------- MODULE PlainCreate ----------------------------
(***************************************************************************)
(* Plain `sow create`: the metadata of one directory of packages, made in  *)
(* place, without a workspace or a ledger.                                 *)
(*                                                                         *)
(* A run scans the packages, renders everything in a stage directory,      *)
(* checks that the packages are still those it scanned, decides what       *)
(* changes, and then moves file after file over the live ones: signed      *)
(* packages, the RPM indexes under names made of their digests, the        *)
(* retention list, repomd.xml (the pointer), the DEB indexes, and with     *)
(* --pigsty the marker, which is withdrawn first and installed last.       *)
(* There is no journal: a run that stops is repaired by running again.     *)
(* Readers fetch the pointer and then the indexes it names, and must find  *)
(* those of the pointer before it, too.                                    *)
(*                                                                         *)
(* A run holds the lock on the directory; the packages are the user's, who *)
(* may change them at any time.                                            *)
(***************************************************************************)
EXTENDS Naturals, FiniteSets, Sequences

CONSTANTS RPM, DEB,   \* package file names
          Dropped,    \* packages that --pigsty removes
          Kind,       \* the index files of one pointer
          None,       \* absent
          MaxEdits,   \* bound on changes by the user
          MaxStops    \* bound on runs that stop

ASSUME PlainAssumption ==
  /\ RPM \cap DEB = {}
  /\ Dropped \subseteq RPM \cup DEB
  /\ Kind # {}
  /\ {MaxEdits, MaxStops} \subseteq Nat

VARIABLES pkgs,      \* the packages: absent, as built, or signed
          repomd,    \* the pointer: the packages it describes, or None
          indexes,   \* the hash-named files in repodata
          history,   \* .sow-plain-rpm-history.json
          deb,       \* Packages and Packages.gz
          marker,    \* repo_complete
          stage,     \* whether a .sow-plain-stage-* directory is there
          run,       \* the run
          replaced,  \* the pointer before the current one
          edits, stops

live == <<repomd, indexes, history, deb, marker, replaced>>
vars == <<pkgs, repomd, indexes, history, deb, marker, stage, run, replaced, edits, stops>>

-----------------------------------------------------------------------------
(* Packages, snapshots and the retention list *)

Pkg == RPM \cup DEB

Absent == 0
Unsigned == 1
Signed == 2

\* A fact is a package with its digest; indexes and the marker are sets of them.
Fact == Pkg \X {Unsigned, Signed}

\* The retention list, newest first.
History == [snapshots : Seq(SUBSET Fact)]

ASSUME NoneAssumption == (\A facts \in SUBSET Fact : facts # None) /\ None \notin History

Facts(names) == {<<p, pkgs[p]>> : p \in {q \in names : pkgs[q] # Absent}}

OfFormat(facts, names) == {f \in facts : f[1] \in names}

\* The files that the pointer of a snapshot names.
Files(snapshot) == IF snapshot = None THEN {} ELSE {<<snapshot, k>> : k \in Kind}

Snapshot(facts) ==
  IF OfFormat(facts, RPM) = {} THEN None ELSE OfFormat(facts, RPM)

DebIndex(facts) ==
  IF OfFormat(facts, DEB) = {} THEN None ELSE OfFormat(facts, DEB)

Idle == [at |-> "idle", pigsty |-> FALSE, sign |-> FALSE, all |-> {}, kept |-> {},
         todo |-> {}, stale |-> {}, newHistory |-> None]

At(step) == run.at = step

Go(step) == run' = [run EXCEPT !.at = step]

\* The run ends and removes its stage.
Exit == run' = Idle /\ stage' = FALSE

\* prepareRPMRetention: the snapshot after the current one in the list.
Matches == {i \in 1 .. Len(history.snapshots) : history.snapshots[i] = repomd}

Matched == repomd # None /\ history # None /\ Matches # {}

Previous ==
  LET first == CHOOSE i \in Matches : \A j \in Matches : i <= j
  IN  IF Matched /\ first < Len(history.snapshots)
        THEN history.snapshots[first + 1] ELSE None

\* Mutant: the predecessor is taken from the top of the list.
RetainedTop(next) ==
  IF repomd # next THEN repomd
  ELSE IF history # None /\ Len(history.snapshots) > 1 THEN history.snapshots[2] ELSE None

\* What the next cleanup keeps beside the new snapshot.
Retained(next) == IF repomd # next THEN repomd ELSE Previous

One(snapshot) == IF snapshot = None THEN <<>> ELSE <<snapshot>>

NewHistory(next) ==
  IF repomd = next
    THEN IF Matched THEN None ELSE [snapshots |-> <<next>>]
    ELSE [snapshots |-> <<next>> \o One(repomd) \o One(Previous)]

-----------------------------------------------------------------------------
(* Create, up to the publication *)

\* The lock is taken, stale stages are removed, and without --pigsty a marker
\* ends the run.
Start(pigsty, sign) ==
  /\ run = Idle
  /\ stage' = FALSE
  /\ run' = IF marker # None /\ ~pigsty THEN Idle
            ELSE [Idle EXCEPT !.at = "scan", !.pigsty = pigsty, !.sign = sign]
  /\ UNCHANGED <<pkgs, live, edits, stops>>

Kept(facts) == IF run.pigsty THEN {f \in facts : f[1] \notin Dropped} ELSE facts

ScanPackages ==
  /\ At("scan")
  /\ IF Facts(Pkg) = {} /\ ~run.pigsty
       THEN Exit
       ELSE /\ run' = [run EXCEPT !.at = "render", !.all = Facts(Pkg),
                                  !.kept = Kept(Facts(Pkg))]
            /\ UNCHANGED stage
  /\ UNCHANGED <<pkgs, live, edits, stops>>

\* stageSignedRPMs: copies of the unsigned RPMs are signed in the stage.
Sign(facts) ==
  {IF f[1] \in RPM THEN <<f[1], Signed>> ELSE f : f \in facts}

\* renderStage
RenderStage ==
  /\ At("render")
  /\ IF run.sign /\ OfFormat(run.kept, RPM) = {}
       THEN Exit
       ELSE /\ stage' = TRUE
            /\ run' = [run EXCEPT !.at = "verify",
                                  !.kept = IF run.sign THEN Sign(@) ELSE @]
  /\ UNCHANGED <<pkgs, live, edits, stops>>

\* Mutant: a run whose pointer is in place has nothing to do.
ChangedPointer(next, stale) ==
  \/ repomd # next
  \/ deb # [packages |-> DebIndex(run.kept), gzip |-> DebIndex(run.kept)]
  \/ run.pigsty /\ marker # run.kept

\* preparePublication: whether anything at all is to be written.
Changed(next, stale) ==
  \/ repomd # next
  \/ ~(Files(next) \subseteq indexes)
  \/ stale # {}
  \/ next # None /\ NewHistory(next) # None
  \/ next = None /\ history # None
  \/ deb # [packages |-> DebIndex(run.kept), gzip |-> DebIndex(run.kept)]
  \/ run.pigsty /\ marker # run.kept
  \/ \E f \in run.kept : f \notin run.all
  \/ \E f \in run.all : run.pigsty /\ f[1] \in Dropped

\* verifyStableInputs, then the plan: all old index files but the retained ones.
PreparePublication ==
  /\ At("verify")
  /\ LET next == Snapshot(run.kept)
         stale == IF next = None THEN indexes
                  ELSE indexes \ (Files(next) \cup Files(Retained(next)))
     IN  IF Facts(Pkg) = run.all /\ Changed(next, stale)
           THEN /\ run' = [run EXCEPT !.at = "publish", !.stale = stale,
                             !.todo = run.kept \ run.all,
                             !.newHistory = IF next = None THEN None ELSE NewHistory(next)]
                /\ UNCHANGED stage
           ELSE Exit
  /\ UNCHANGED <<pkgs, live, edits, stops>>

-----------------------------------------------------------------------------
(* publishStage *)

WithdrawMarker ==
  /\ At("publish")
  /\ marker' = IF run.pigsty THEN None ELSE marker
  /\ Go("packages")
  /\ UNCHANGED <<pkgs, repomd, indexes, history, deb, replaced, stage, edits, stops>>

InstallSigned(f) ==
  /\ At("packages")
  /\ f \in run.todo
  /\ pkgs' = [pkgs EXCEPT ![f[1]] = f[2]]
  /\ run' = [run EXCEPT !.todo = @ \ {f}]
  /\ UNCHANGED <<live, stage, edits, stops>>

PackagesDone ==
  /\ At("packages")
  /\ run.todo = {}
  /\ Go(IF Snapshot(run.kept) = None THEN "unpoint" ELSE "index")
  /\ UNCHANGED <<pkgs, live, stage, edits, stops>>

\* installStagedFile renames and syncs; the last index is followed by the list.
InstallIndex(k) ==
  /\ At("index")
  /\ <<Snapshot(run.kept), k>> \notin indexes
  /\ indexes' = indexes \cup {<<Snapshot(run.kept), k>>}
  /\ UNCHANGED <<pkgs, repomd, history, deb, marker, replaced, stage, run, edits, stops>>

InstallHistory ==
  /\ At("index")
  /\ Files(Snapshot(run.kept)) \subseteq indexes
  /\ history' = IF run.newHistory = None THEN history ELSE run.newHistory
  /\ Go("pointer")
  /\ UNCHANGED <<pkgs, repomd, indexes, deb, marker, replaced, stage, edits, stops>>

InstallPointer ==
  /\ At("pointer")
  /\ repomd' = Snapshot(run.kept)
  /\ replaced' = IF repomd \in {None, repomd'} THEN replaced ELSE repomd
  /\ Go("stale")
  /\ UNCHANGED <<pkgs, indexes, history, deb, marker, stage, edits, stops>>

RemoveStale(file) ==
  /\ \/ At("stale")
     \/ At("unindex")
  /\ file \in run.stale \cap indexes
  /\ indexes' = indexes \ {file}
  /\ UNCHANGED <<pkgs, repomd, history, deb, marker, replaced, stage, run, edits, stops>>

StaleDone ==
  /\ \/ At("stale")
     \/ At("unindex")
  /\ run.stale \cap indexes = {}
  /\ Go(IF At("stale") THEN "deb" ELSE "unhistory")
  /\ UNCHANGED <<pkgs, live, stage, edits, stops>>

\* No RPM is left: the pointer goes first, the list last.
RemovePointer ==
  /\ At("unpoint")
  /\ repomd' = None
  /\ replaced' = None
  /\ Go("unindex")
  /\ UNCHANGED <<pkgs, indexes, history, deb, marker, stage, edits, stops>>

RemoveHistory ==
  /\ At("unhistory")
  /\ history' = None
  /\ Go("deb")
  /\ UNCHANGED <<pkgs, repomd, indexes, deb, marker, replaced, stage, edits, stops>>

\* Packages is installed before Packages.gz, and removed after it.
ChangeDeb ==
  LET index == DebIndex(run.kept)
      first == IF index = None THEN "gzip" ELSE "packages"
      second == IF index = None THEN "packages" ELSE "gzip"
  IN  \/ /\ At("deb")
         /\ deb' = [deb EXCEPT ![first] = index]
         /\ Go("deb2")
      \/ /\ At("deb2")
         /\ deb' = [deb EXCEPT ![second] = index]
         /\ Go("drop")

InstallDeb ==
  /\ ChangeDeb
  /\ UNCHANGED <<pkgs, repomd, indexes, history, marker, replaced, stage, edits, stops>>

ToDrop == {f \in run.all : run.pigsty /\ f[1] \in Dropped}

\* Mutant: packages are removed before the indexes are replaced.
RemoveDroppedEarly(p) ==
  /\ At("packages") \/ At("drop")
  /\ p \in {f[1] : f \in ToDrop}
  /\ pkgs' = [pkgs EXCEPT ![p] = Absent]
  /\ run' = [run EXCEPT !.all = {f \in @ : f[1] # p}]
  /\ UNCHANGED <<live, stage, edits, stops>>

\* A package the user has removed meanwhile ends the run without a marker.
RemoveDropped(p) ==
  /\ At("drop")
  /\ p \in {f[1] : f \in ToDrop}
  /\ IF pkgs[p] = Absent
       THEN Exit /\ UNCHANGED pkgs
       ELSE /\ pkgs' = [pkgs EXCEPT ![p] = Absent]
            /\ run' = [run EXCEPT !.all = {f \in @ : f[1] # p}]
            /\ UNCHANGED stage
  /\ UNCHANGED <<live, edits, stops>>

InstallMarker ==
  /\ At("drop")
  /\ ToDrop = {}
  /\ marker' = IF run.pigsty THEN run.kept ELSE marker
  /\ Exit
  /\ UNCHANGED <<pkgs, repomd, indexes, history, deb, replaced, edits, stops>>

-----------------------------------------------------------------------------
(* The user, and runs that stop *)

\* A package is added, removed, or its signed file put back as it was built.
Edit(p) ==
  /\ edits < MaxEdits
  /\ edits' = edits + 1
  /\ \E c \in {Absent, Unsigned} \ {pkgs[p]} : pkgs' = [pkgs EXCEPT ![p] = c]
  /\ UNCHANGED <<live, stage, run, stops>>

\* The marker is removed to rebuild without --pigsty, as the gate asks.
RemoveMarker ==
  /\ edits < MaxEdits
  /\ marker # None
  /\ edits' = edits + 1
  /\ marker' = None
  /\ UNCHANGED <<pkgs, repomd, indexes, history, deb, replaced, stage, run, stops>>

\* The list is lost or damaged while no run is on: the window starts again.
LoseHistory ==
  /\ run = Idle
  /\ edits < MaxEdits
  /\ history # None
  /\ edits' = edits + 1
  /\ history' \in {None, [snapshots |-> <<>>]}
  /\ replaced' = None
  /\ UNCHANGED <<pkgs, repomd, indexes, deb, marker, stage, run, stops>>

\* The run is killed, or a step fails and it removes its stage.
Stop ==
  /\ run # Idle
  /\ stops < MaxStops
  /\ stops' = stops + 1
  /\ run' = Idle
  /\ stage' \in {stage, FALSE}
  /\ UNCHANGED <<pkgs, live, edits>>

-----------------------------------------------------------------------------
(* Specification *)

Init ==
  /\ pkgs = [p \in Pkg |-> Unsigned]
  /\ repomd = None
  /\ indexes = {}
  /\ history = None
  /\ deb = [packages |-> None, gzip |-> None]
  /\ marker = None
  /\ stage = FALSE
  /\ run = Idle
  /\ replaced = None
  /\ edits = 0 /\ stops = 0

Step ==
  \/ ScanPackages \/ RenderStage \/ PreparePublication \/ WithdrawMarker
  \/ PackagesDone \/ InstallHistory \/ InstallPointer \/ StaleDone
  \/ RemovePointer \/ RemoveHistory \/ InstallDeb \/ InstallMarker
  \/ \E f \in run.todo : InstallSigned(f)
  \/ \E k \in Kind : InstallIndex(k)
  \/ \E file \in run.stale : RemoveStale(file)
  \/ \E p \in Dropped : RemoveDropped(p)

Next ==
  \/ Step
  \/ \E pigsty, sign \in BOOLEAN : Start(pigsty, sign)
  \/ \E p \in Pkg : Edit(p)
  \/ RemoveMarker \/ LoseHistory \/ Stop

Spec == Init /\ [][Next]_vars

\* A run takes its next step, and the user runs `sow create` again and again.
FairSpec == Spec /\ WF_vars(Step) /\ SF_vars(Start(FALSE, FALSE))

-----------------------------------------------------------------------------
(* Properties *)

\* Every variable has its type, and the retention list keeps to its limit.
TypeOK ==
  /\ pkgs \in [Pkg -> {Absent, Unsigned, Signed}]
  /\ {repomd, replaced} \subseteq {None} \cup SUBSET Fact
  /\ indexes \subseteq (SUBSET Fact) \X Kind
  /\ history # None => Len(history.snapshots) <= 3
  /\ {deb.packages, deb.gzip, marker} \subseteq {None} \cup SUBSET Fact
  /\ stage \in BOOLEAN /\ {run.pigsty, run.sign} \subseteq BOOLEAN
  /\ edits \in 0 .. MaxEdits /\ stops \in 0 .. MaxStops

\* Wherever runs stopped, a reader finds every index named by the pointer it
\* fetched now or before the last switch (publish.go:226, retention.go:32);
\* the window is given up only with the retention list or the last RPM.
IndexesServed == Files(repomd) \cup Files(replaced) \subseteq indexes

\* While the marker is there the indexes describe the packages it lists, after
\* any number of edits, stops and runs in the other mode (publish.go:207).
MarkerTrue ==
  marker # None => /\ repomd = Snapshot(marker)
                   /\ deb = [packages |-> DebIndex(marker), gzip |-> DebIndex(marker)]

\* Wherever runs of create stop, readers find the files of the pointer they
\* hold, and a marker that was left describes what is served.
PlainSafe == TypeOK /\ IndexesServed /\ MarkerTrue

\* A run takes a package out of the directory only when no index it publishes
\* names it (publish.go:346).
PrunedUnindexed ==
  [][\A p \in Pkg :
       (run' # run /\ pkgs[p] # Absent /\ pkgs'[p] = Absent) =>
         \A index \in {repomd, deb.packages, deb.gzip} :
           index # None => p \notin {f[1] : f \in index}]_vars

\* The metadata is that of the directory, and nothing outdated is left.
Fresh ==
  /\ repomd = Snapshot(Facts(Pkg))
  /\ deb = [packages |-> DebIndex(Facts(Pkg)), gzip |-> DebIndex(Facts(Pkg))]
  /\ indexes = Files(repomd) \cup Files(replaced)

\* Once the user leaves the packages alone, running again repairs whatever a
\* stopped run left, unless the marker gate or an empty directory ends it.
Converges == <>[](Fresh \/ marker # None \/ Facts(Pkg) = {})
=============================================================================
