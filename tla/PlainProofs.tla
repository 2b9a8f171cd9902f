---------------------------- MODULE PlainProofs ----------------------------
(***************************************************************************)
(* Safety of PlainCreate for every set of packages and index files and     *)
(* every number of edits and stops.  Without a journal everything rests on *)
(* the order of the steps: PlainInv says, for each step of a run, which of *)
(* the files it has in place already and which it may still remove; and    *)
(* that the retention list, wherever a run stopped, names the pointer      *)
(* before the current one.                                                 *)
(***************************************************************************)
EXTENDS PlainCreate, TLAPS

Before == {"idle", "scan", "render", "verify"}

Planned == {"publish", "packages", "index", "pointer"}

\* The steps at which the pointer is that of the run.
Switched == {"stale", "unindex", "unhistory", "deb", "deb2", "drop"}

Steps == Before \union Planned \union Switched \union {"unpoint"}

RunRecord ==
  [at : Steps, pigsty : BOOLEAN, sign : BOOLEAN, all : SUBSET Fact, kept : SUBSET Fact, todo : SUBSET Fact,
   stale : SUBSET ((SUBSET Fact) \X Kind), newHistory : {None} \union History]

Typed ==
  /\ pkgs \in [Pkg -> {Absent, Unsigned, Signed}]
  /\ repomd \in {None} \union SUBSET Fact
  /\ replaced \in {None} \union SUBSET Fact
  /\ indexes \subseteq (SUBSET Fact) \X Kind
  /\ history \in {None} \union History
  /\ history # None => Len(history.snapshots) <= 3
  /\ deb \in [packages : {None} \union SUBSET Fact, gzip : {None} \union SUBSET Fact]
  /\ marker \in {None} \union SUBSET Fact
  /\ stage \in BOOLEAN
  /\ run \in RunRecord
  /\ run.newHistory # None => Len(run.newHistory.snapshots) <= 3
  /\ edits \in 0 .. MaxEdits /\ stops \in 0 .. MaxStops

\* The retention list has the pointer that was replaced right after the current.
WindowListed ==
  /\ replaced # None => Matched /\ Previous = replaced
  /\ repomd = None => replaced = None

\* A marker is there only while no run is changing what it describes.
Withdrawn ==
  /\ run.at \in (Planned \ {"publish"}) \union Switched \union {"unpoint"} => marker = None
  /\ run.at # "idle" /\ ~run.pigsty => marker = None

\* What --pigsty drops is in no index of the run.
DroppedOut ==
  run.at \notin {"idle", "scan"} /\ run.pigsty => \A f \in run.kept : f[1] \notin Dropped

\* The plan of a run that has RPMs, up to the pointer.
PlanSound ==
  LET next == Snapshot(run.kept)
  IN /\ run.at \in {"index", "pointer"} => next # None
     /\ run.at \in {"publish", "packages", "index"} /\ next # None => run.newHistory = NewHistory(next)
     /\ run.at \in Planned /\ next # None =>
          /\ run.stale \cap Files(next) = {}
          /\ run.stale \cap Files(IF repomd = next THEN replaced ELSE repomd) = {}
     /\ run.at = "pointer" => Files(next) \subseteq indexes
     /\ run.at = "pointer" /\ repomd \notin {None, next} =>
          /\ history # None /\ Len(history.snapshots) >= 2
          /\ history.snapshots[1] = next /\ history.snapshots[2] = repomd

\* What is in place after the pointer.
SwitchSound ==
  LET index == DebIndex(run.kept)
  IN /\ run.at \in Switched => repomd = Snapshot(run.kept)
     /\ run.at \in {"unpoint", "unindex", "unhistory"} => Snapshot(run.kept) = None
     /\ run.at = "stale" => run.stale \cap (Files(repomd) \union Files(replaced)) = {}
     /\ run.at = "deb2" => (IF index = None THEN deb.gzip ELSE deb.packages) = index
     /\ run.at = "drop" => deb = [packages |-> index, gzip |-> index]

PlainInv ==
  /\ Typed
  /\ WindowListed
  /\ Withdrawn
  /\ DroppedOut
  /\ PlanSound
  /\ SwitchSound
  /\ IndexesServed
  /\ MarkerTrue

-----------------------------------------------------------------------------
(* Snapshots and the retention list *)

\* Whether there is a snapshot is never in doubt.
LEMMA NoneApart == None \notin SUBSET Fact /\ None \notin History
BY NoneAssumption

\* What is rendered from facts describes some of them.
LEMMA Rendered ==
  ASSUME NEW facts \in SUBSET Fact
  PROVE  /\ Snapshot(facts) \in {None} \union SUBSET Fact
         /\ DebIndex(facts) \in {None} \union SUBSET Fact
         /\ Snapshot(facts) # None => Snapshot(facts) \subseteq facts
         /\ DebIndex(facts) # None => DebIndex(facts) \subseteq facts
BY DEF Snapshot, DebIndex, OfFormat

\* The files of a snapshot are index files.
LEMMA FilesIndexed ==
  /\ Files(None) = {}
  /\ \A snapshot \in {None} \union SUBSET Fact : Files(snapshot) \subseteq (SUBSET Fact) \X Kind
  /\ \A snapshot \in SUBSET Fact : \A k \in Kind : <<snapshot, k>> \in Files(snapshot)
  /\ \A snapshot \in SUBSET Fact : \A file \in Files(snapshot) : \E k \in Kind : file = <<snapshot, k>>
BY NoneApart DEF Files

\* The retention list is short, so that the first match is found.
LEMMA FirstMatch ==
  ASSUME Typed, Matched
  PROVE  LET first == CHOOSE i \in Matches : \A j \in Matches : i <= j
         IN first \in Matches /\ \A j \in Matches : first <= j
<1>1. history \in History /\ Len(history.snapshots) \in Nat /\ Len(history.snapshots) <= 3
  BY DEF Typed, Matched, History
<1>2. Matches \subseteq {1, 2, 3} /\ Matches # {}
  BY <1>1 DEF Matches, Matched
<1>3. \E i \in Matches : \A j \in Matches : i <= j
  <2>1. CASE 1 \in Matches  BY <1>2, <2>1
  <2>2. CASE 1 \notin Matches /\ 2 \in Matches  BY <1>2, <2>2
  <2>3. CASE Matches = {3}  BY <2>3
  <2> QED
    BY <1>2, <2>1, <2>2, <2>3
<1> QED
  BY <1>3

\* The snapshot after the current one is a snapshot of the list.
LEMMA PreviousListed ==
  ASSUME Typed
  PROVE  /\ Previous \in {None} \union SUBSET Fact
         /\ ~Matched => Previous = None
<1>1. CASE Matched
  <2> DEFINE first == CHOOSE i \in Matches : \A j \in Matches : i <= j
  <2>1. first \in Matches
    BY <1>1, FirstMatch
  <2>2. history \in History /\ first \in 1 .. Len(history.snapshots) /\ Len(history.snapshots) \in Nat
    BY <1>1, <2>1 DEF Matched, Matches, Typed, History
  <2>3. Previous = IF first < Len(history.snapshots) THEN history.snapshots[first + 1] ELSE None
    BY <1>1 DEF Previous
  <2> HIDE DEF first
  <2> QED
    BY <1>1, <2>2, <2>3 DEF History
<1>2. CASE ~Matched
  BY <1>2 DEF Previous
<1> QED
  BY <1>1, <1>2

\* A match at a place nothing matches before decides what is kept.
LEMMA PreviousAt ==
  ASSUME Typed, repomd # None, history # None, NEW i \in 1 .. Len(history.snapshots),
         history.snapshots[i] = repomd, \A j \in 1 .. i - 1 : history.snapshots[j] # repomd
  PROVE  /\ Matched
         /\ i < Len(history.snapshots) => Previous = history.snapshots[i + 1]
<1> DEFINE first == CHOOSE k \in Matches : \A j \in Matches : k <= j
<1>1. Len(history.snapshots) \in Nat
  BY DEF Typed, History
<1>2. i \in Matches /\ Matched
  BY DEF Matches, Matched
<1>3. first \in Matches /\ \A j \in Matches : first <= j
  BY <1>2, FirstMatch
<1>4. first = i
  <2>1. first \in Nat /\ first >= 1 /\ first <= i /\ history.snapshots[first] = repomd
    BY <1>1, <1>2, <1>3 DEF Matches
  <2> HIDE DEF first
  <2> QED
    BY <1>1, <2>1
<1>5. Previous = IF first < Len(history.snapshots) THEN history.snapshots[first + 1] ELSE None
  BY <1>2 DEF Previous
<1> QED
  BY <1>2, <1>4, <1>5

\* The first two places, as a formula of one state.
LEMMA PreviousAtStates ==
  \A i \in {1, 2} :
    (Typed /\ repomd # None /\ history # None /\ i \in 1 .. Len(history.snapshots)
     /\ history.snapshots[i] = repomd /\ (\A j \in 1 .. i - 1 : history.snapshots[j] # repomd)
     /\ i < Len(history.snapshots)
     => Matched /\ Previous = history.snapshots[i + 1])
BY PreviousAt

\* And so after every step.
LEMMA PreviousAtNext ==
  (\A i \in {1, 2} :
    (Typed /\ repomd # None /\ history # None /\ i \in 1 .. Len(history.snapshots)
     /\ history.snapshots[i] = repomd /\ (\A j \in 1 .. i - 1 : history.snapshots[j] # repomd)
     /\ i < Len(history.snapshots)
     => Matched /\ Previous = history.snapshots[i + 1]))'
BY PreviousAtStates, PTL

\* A list put together from three snapshots has them in this order.
LEMMA Three ==
  ASSUME NEW S, NEW a \in S, NEW b \in S, NEW c \in S
  PROVE  LET list == (<<a>> \o <<b>>) \o <<c>>
         IN list \in Seq(S) /\ Len(list) = 3 /\ list[1] = a /\ list[2] = b /\ list[3] = c
OBVIOUS

\* The list a run installs: the new snapshot, and the window behind it.
LEMMA Listed ==
  ASSUME Typed, NEW next \in SUBSET Fact
  PROVE  /\ NewHistory(next) \in {None} \union History
         /\ NewHistory(next) # None => Len(NewHistory(next).snapshots) <= 3
         /\ NewHistory(next) = None <=> repomd = next /\ Matched
         /\ repomd \notin {None, next} =>
              /\ Len(NewHistory(next).snapshots) >= 2
              /\ NewHistory(next).snapshots[1] = next
              /\ NewHistory(next).snapshots[2] = repomd
              /\ Previous # None => Len(NewHistory(next).snapshots) = 3 /\ NewHistory(next).snapshots[3] = Previous
<1>1. repomd \in {None} \union SUBSET Fact /\ Previous \in {None} \union SUBSET Fact
  BY PreviousListed DEF Typed
<1> DEFINE long == <<next>> \o One(repomd) \o One(Previous)
<1>2. /\ long \in Seq(SUBSET Fact) /\ Len(long) <= 3
      /\ repomd # None => Len(long) >= 2 /\ long[1] = next /\ long[2] = repomd
      /\ repomd # None /\ Previous # None => Len(long) = 3 /\ long[3] = Previous
  <2>1. CASE repomd = None /\ Previous = None
    BY <2>1 DEF One
  <2>2. CASE repomd = None /\ Previous # None
    BY <1>1, <2>2 DEF One
  <2>3. CASE repomd # None /\ Previous = None
    BY <1>1, <2>3 DEF One
  <2>4. CASE repomd # None /\ Previous # None
    <3>1. long = (<<next>> \o <<repomd>>) \o <<Previous>>
      BY <2>4 DEF One
    <3> DEFINE S == SUBSET Fact
    <3>2. next \in S /\ repomd \in S /\ Previous \in S
      BY <1>1, <2>4
    <3> HIDE DEF S, long
    <3>3. long \in Seq(S) /\ Len(long) = 3 /\ long[1] = next /\ long[2] = repomd /\ long[3] = Previous
      BY <3>1, <3>2, Three
    <3> QED
      BY <3>3 DEF S
  <2> QED
    BY <2>1, <2>2, <2>3, <2>4
<1> HIDE DEF long
<1>3. CASE repomd = next /\ Matched
  BY <1>3, NoneApart DEF NewHistory
<1>4. CASE repomd = next /\ ~Matched
  <2>1. NewHistory(next) = [snapshots |-> <<next>>]
    BY <1>4 DEF NewHistory
  <2>2. <<next>> \in Seq(SUBSET Fact) /\ Len(<<next>>) = 1
    OBVIOUS
  <2>3. [snapshots |-> <<next>>] \in History
    BY <2>2 DEF History
  <2> QED
    BY <1>4, <2>1, <2>2, <2>3, NoneApart
<1>5. CASE repomd # next
  <2>1. NewHistory(next) = [snapshots |-> long]
    BY <1>5 DEF NewHistory, long
  <2>2. [snapshots |-> long] \in History
    BY <1>2 DEF History
  <2> QED
    BY <1>2, <1>5, <2>1, <2>2, NoneApart
<1> QED
  BY <1>3, <1>4, <1>5

\* Nothing of the window changes with the rest.
LEMMA SameWindow ==
  ASSUME UNCHANGED <<repomd, history>>
  PROVE  /\ Matched' <=> Matched
         /\ Previous' = Previous
         /\ \A next : NewHistory(next)' = NewHistory(next)
BY DEF Matched, Matches, Previous, NewHistory

-----------------------------------------------------------------------------
(* Steps of a run *)

\* What is live stays, and so does what is said of it.
LEMMA LiveKept ==
  ASSUME PlainInv, UNCHANGED <<repomd, indexes, history, deb, replaced>>, marker' \in {marker, None}
  PROVE  WindowListed' /\ IndexesServed' /\ MarkerTrue'
<1>1. WindowListed'
  BY SameWindow DEF PlainInv, WindowListed
<1>2. IndexesServed'
  BY DEF PlainInv, IndexesServed, Files
<1>3. MarkerTrue'
  BY DEF PlainInv, MarkerTrue, Snapshot, DebIndex, OfFormat
<1> QED
  BY <1>1, <1>2, <1>3

\* A run has ended.
LEMMA Ended ==
  ASSUME Typed', run' = Idle, WindowListed', IndexesServed', MarkerTrue'
  PROVE  PlainInv'
<1>1. run'.at = "idle"
  BY DEF Idle
<1>2. Withdrawn' /\ DroppedOut'
  BY <1>1 DEF Withdrawn, DroppedOut, Planned, Switched
<1>3. PlanSound' /\ SwitchSound'
  BY <1>1 DEF PlanSound, SwitchSound, Planned, Switched
<1> QED
  BY <1>2, <1>3 DEF PlainInv

\* The run before its first step is a run.
LEMMA IdleTyped == Idle \in RunRecord
BY DEF Idle, RunRecord, Steps, Before

\* A run ends without a change to what is live.
LEMMA ExitStep ==
  ASSUME PlainInv, run' = Idle, stage' \in BOOLEAN, UNCHANGED <<pkgs, live, edits>>, stops' \in 0 .. MaxStops
  PROVE  PlainInv'
<1>1. Typed'
  BY IdleTyped DEF PlainInv, Typed, live, Idle
<1> QED
  BY <1>1, LiveKept, Ended DEF live

\* A run goes on with its facts and its plan.
LEMMA Going ==
  ASSUME PlainInv, NEW step \in Steps, Go(step)
  PROVE  /\ run' \in RunRecord /\ run'.at = step /\ run'.pigsty = run.pigsty /\ run'.kept = run.kept
         /\ run'.stale = run.stale /\ run'.newHistory = run.newHistory /\ run'.all = run.all /\ run'.todo = run.todo
BY DEF PlainInv, Typed, RunRecord, Go

\* A run that has not planned yet goes on.
LEMMA EarlyStep ==
  ASSUME PlainInv, run' \in RunRecord, run'.at \in Before \ {"idle"}, run'.newHistory \in {None, run.newHistory},
         stage' \in BOOLEAN, UNCHANGED <<pkgs, live, edits, stops>>,
         ~run'.pigsty => marker = None,
         run'.at # "scan" /\ run'.pigsty => \A f \in run'.kept : f[1] \notin Dropped
  PROVE  PlainInv'
<1>1. Typed'
  BY DEF PlainInv, Typed, live
<1>2. Withdrawn' /\ DroppedOut'
  BY DEF Withdrawn, DroppedOut, Before, Planned, Switched, live
<1>3. PlanSound' /\ SwitchSound'
  BY DEF PlanSound, SwitchSound, Before, Planned, Switched
<1> QED
  BY <1>1, <1>2, <1>3, LiveKept DEF PlainInv, live

\* The packages there are, as facts.
LEMMA FactsTyped ==
  ASSUME Typed
  PROVE  Facts(Pkg) \in SUBSET Fact
BY DEF Typed, Facts, Fact, Absent, Unsigned, Signed

\* Create begins, or the marker ends it.
LEMMA StartStep ==
  ASSUME PlainInv, NEW pigsty \in BOOLEAN, NEW sign \in BOOLEAN, Start(pigsty, sign)
  PROVE  PlainInv'
<1>1. CASE marker # None /\ ~pigsty
  BY <1>1, ExitStep DEF Start, PlainInv, Typed
<1>2. CASE marker = None \/ pigsty
  <2>1. run' = [Idle EXCEPT !.at = "scan", !.pigsty = pigsty, !.sign = sign]
    BY <1>2 DEF Start
  <2>2. /\ run' \in RunRecord /\ run'.at = "scan" /\ run'.newHistory = None /\ run'.pigsty = pigsty
    BY <2>1, IdleTyped DEF Idle, RunRecord, Steps, Before
  <2> QED
    BY <1>2, <2>2, EarlyStep DEF Start, Before
<1> QED
  BY <1>1, <1>2

\* A run that is not idle and not past its plan has planned nothing.
LEMMA NotPlanned ==
  ASSUME PlainInv, NEW step \in {"scan", "render", "verify"}, At(step)
  PROVE  /\ ~run.pigsty => marker = None
         /\ run \in RunRecord
         /\ step # "scan" /\ run.pigsty => \A f \in run.kept : f[1] \notin Dropped
BY DEF PlainInv, Typed, Withdrawn, DroppedOut, At

\* ScanPackages and renderStage.
LEMMA ScanStep ==
  ASSUME PlainInv, ScanPackages
  PROVE  PlainInv'
<1>1. run \in RunRecord /\ (~run.pigsty => marker = None)
  BY NotPlanned DEF ScanPackages
<1>2. Facts(Pkg) \in SUBSET Fact
  BY FactsTyped DEF PlainInv
<1>3. CASE Facts(Pkg) = {} /\ ~run.pigsty
  BY <1>3, ExitStep DEF ScanPackages, Exit, PlainInv, Typed
<1>4. CASE ~(Facts(Pkg) = {} /\ ~run.pigsty)
  <2> DEFINE all == Facts(Pkg)
  <2>1. /\ Kept(all) \in SUBSET Fact
        /\ run.pigsty => \A f \in Kept(all) : f[1] \notin Dropped
    BY <1>2 DEF Kept
  <2>2. run' = [run EXCEPT !.at = "render", !.all = all, !.kept = Kept(all)] /\ UNCHANGED stage
    BY <1>4 DEF ScanPackages
  <2> HIDE DEF all
  <2>3. /\ run' \in RunRecord /\ run'.at = "render" /\ run'.newHistory = run.newHistory /\ run'.pigsty = run.pigsty
        /\ run'.kept = Kept(all)
    BY <1>1, <1>2, <2>1, <2>2 DEF RunRecord, Steps, Before, all
  <2> QED
    BY <1>1, <2>1, <2>2, <2>3, EarlyStep DEF ScanPackages, Before, PlainInv, Typed
<1> QED
  BY <1>3, <1>4

\* Signing changes no name.
LEMMA SignTyped ==
  ASSUME NEW facts \in SUBSET Fact
  PROVE  /\ Sign(facts) \in SUBSET Fact
         /\ \A f \in Sign(facts) : \E g \in facts : f[1] = g[1]
<1>1. ASSUME NEW f \in facts
      PROVE  LET signed == IF f[1] \in RPM THEN <<f[1], Signed>> ELSE f
             IN signed \in Fact /\ signed[1] = f[1]
  BY DEF Fact
<1> QED
  BY <1>1 DEF Sign

\* What is kept is rendered, signed or not.
LEMMA RenderStep ==
  ASSUME PlainInv, RenderStage
  PROVE  PlainInv'
<1>1. /\ run \in RunRecord /\ (~run.pigsty => marker = None)
      /\ run.pigsty => \A f \in run.kept : f[1] \notin Dropped
  BY NotPlanned DEF RenderStage
<1>2. CASE run.sign /\ OfFormat(run.kept, RPM) = {}
  BY <1>2, ExitStep DEF RenderStage, Exit, PlainInv, Typed
<1>3. CASE ~(run.sign /\ OfFormat(run.kept, RPM) = {})
  <2> DEFINE kept == IF run.sign THEN Sign(run.kept) ELSE run.kept
  <2>1. run.kept \in SUBSET Fact
    BY <1>1 DEF RunRecord
  <2>2. /\ kept \in SUBSET Fact
        /\ run.pigsty => \A f \in kept : f[1] \notin Dropped
    BY <1>1, <2>1, SignTyped
  <2>3. run' = [run EXCEPT !.at = "verify", !.kept = kept] /\ stage' = TRUE
    BY <1>3 DEF RenderStage
  <2> HIDE DEF kept
  <2>4. /\ run' \in RunRecord /\ run'.at = "verify" /\ run'.newHistory = run.newHistory /\ run'.pigsty = run.pigsty
        /\ run'.kept = kept
    BY <1>1, <2>2, <2>3 DEF RunRecord, Steps, Before
  <2> QED
    BY <1>1, <2>2, <2>3, <2>4, EarlyStep DEF RenderStage, Before
<1> QED
  BY <1>2, <1>3

\* preparePublication: what is stale keeps clear of both windows.
LEMMA PrepareStep ==
  ASSUME PlainInv, PreparePublication
  PROVE  PlainInv'
<1> DEFINE next == Snapshot(run.kept)
           stale == IF next = None THEN indexes ELSE indexes \ (Files(next) \cup Files(Retained(next)))
           list == IF next = None THEN None ELSE NewHistory(next)
<1>1. /\ run \in RunRecord /\ (~run.pigsty => marker = None)
      /\ run.pigsty => \A f \in run.kept : f[1] \notin Dropped
  BY NotPlanned DEF PreparePublication
<1>2. Typed /\ WindowListed /\ UNCHANGED <<pkgs, live, edits, stops>>
  BY DEF PlainInv, PreparePublication
<1>3. CASE ~(Facts(Pkg) = run.all /\ Changed(next, stale))
  BY <1>3, ExitStep DEF PreparePublication, Exit, PlainInv, Typed
<1>4. CASE Facts(Pkg) = run.all /\ Changed(next, stale)
  <2>1. run.kept \in SUBSET Fact /\ next \in {None} \union SUBSET Fact
    BY <1>1, Rendered DEF RunRecord
  <2>2. /\ list \in {None} \union History
        /\ list # None => Len(list.snapshots) <= 3
    BY <1>2, <2>1, Listed
  <2>3. stale \in SUBSET ((SUBSET Fact) \X Kind)
    BY <1>2 DEF Typed
  <2>4. /\ run' = [run EXCEPT !.at = "publish", !.stale = stale, !.todo = run.kept \ run.all, !.newHistory = list]
        /\ UNCHANGED stage
    BY <1>4 DEF PreparePublication
  <2>5. next # None =>
          /\ stale \cap Files(next) = {}
          /\ stale \cap Files(IF repomd = next THEN replaced ELSE repomd) = {}
    <3>1. CASE next # None /\ repomd = next /\ replaced # None
      BY <1>2, <3>1 DEF WindowListed, Retained
    <3>2. CASE next # None /\ repomd = next /\ replaced = None
      BY <3>2, FilesIndexed
    <3>3. CASE next # None /\ repomd # next
      BY <3>3 DEF Retained
    <3> QED
      BY <3>1, <3>2, <3>3
  <2> HIDE DEF stale, list
  <2>6. /\ run' \in RunRecord /\ run'.at = "publish" /\ run'.pigsty = run.pigsty /\ run'.kept = run.kept
        /\ run'.stale = stale /\ run'.newHistory = list
    BY <1>1, <2>1, <2>2, <2>3, <2>4 DEF RunRecord, Steps, Planned
  <2>7. Typed'
    BY <1>2, <2>2, <2>4, <2>6 DEF Typed, live
  <2>8. Withdrawn' /\ DroppedOut'
    BY <1>1, <1>2, <2>6 DEF Withdrawn, DroppedOut, Planned, Switched, live
  <2>9. Snapshot(run.kept)' = next /\ (next # None => list = NewHistory(next)')
    BY <1>2, <2>6, SameWindow DEF Snapshot, OfFormat, live, list
  <2>10. \A snapshot : Files(snapshot)' = Files(snapshot)
    BY DEF Files
  <2>11. PlanSound'
    BY <1>2, <2>5, <2>6, <2>9, <2>10 DEF PlanSound, live
  <2>12. SwitchSound'
    BY <2>6 DEF SwitchSound, Switched
  <2> QED
    BY <1>2, <2>7, <2>8, <2>11, <2>12, LiveKept DEF PlainInv, live
<1> QED
  BY <1>3, <1>4

-----------------------------------------------------------------------------
(* publishStage *)

\* The same run describes the same files after a step.
LEMMA SameRun ==
  ASSUME run'.kept = run.kept
  PROVE  /\ Snapshot(run.kept)' = Snapshot(run.kept)
         /\ DebIndex(run.kept)' = DebIndex(run.kept)
         /\ \A snapshot : Files(snapshot)' = Files(snapshot)
BY DEF Snapshot, DebIndex, OfFormat, Files

\* Up to the indexes files are added and the pointer stays.
LEMMA PlannedStep ==
  ASSUME PlainInv, run.at \in {"publish", "packages", "index"},
         run' \in RunRecord, run'.at \in {"packages", "index", "unpoint"}, run'.pigsty = run.pigsty,
         run'.kept = run.kept, run'.stale = run.stale, run'.newHistory = run.newHistory,
         run'.at = "index" => Snapshot(run.kept) # None,
         run'.at = "unpoint" => Snapshot(run.kept) = None,
         marker' = None, indexes \subseteq indexes', indexes' \subseteq (SUBSET Fact) \X Kind,
         pkgs' \in [Pkg -> {Absent, Unsigned, Signed}],
         UNCHANGED <<repomd, history, deb, replaced, stage, edits, stops>>
  PROVE  PlainInv'
<1>1. Typed'
  BY DEF PlainInv, Typed
<1>2. WindowListed'
  BY SameWindow DEF PlainInv, WindowListed
<1>3. Withdrawn' /\ DroppedOut'
  BY DEF PlainInv, Withdrawn, DroppedOut
<1>4. PlanSound'
  <2> DEFINE next == Snapshot(run.kept)
  <2>1. next # None =>
          /\ run.newHistory = NewHistory(next)
          /\ run.stale \cap Files(next) = {}
          /\ run.stale \cap Files(IF repomd = next THEN replaced ELSE repomd) = {}
    BY DEF PlainInv, PlanSound, Planned
  <2>2. NewHistory(next)' = NewHistory(next) /\ next' = next
    BY SameWindow, SameRun
  <2> HIDE DEF next
  <2>3. \A snapshot : Files(snapshot)' = Files(snapshot)
    BY SameRun
  <2> QED
    BY <2>1, <2>2, <2>3 DEF PlanSound, next
<1>5. SwitchSound'
  BY SameRun DEF SwitchSound, Switched
<1>6. IndexesServed' /\ MarkerTrue'
  BY DEF PlainInv, IndexesServed, MarkerTrue, Files
<1> QED
  BY <1>1, <1>2, <1>3, <1>4, <1>5, <1>6 DEF PlainInv

\* The marker is withdrawn, signed packages are moved over, indexes installed.
LEMMA InstallStep ==
  ASSUME PlainInv,
         \/ WithdrawMarker \/ PackagesDone
         \/ (\E f \in run.todo : InstallSigned(f)) \/ (\E k \in Kind : InstallIndex(k))
  PROVE  PlainInv'
<1>1. Typed /\ run \in RunRecord
  BY DEF PlainInv, Typed
<1>2. CASE WithdrawMarker
  <2>1. marker' = None /\ "packages" \in Steps
    BY <1>2 DEF WithdrawMarker, At, PlainInv, Withdrawn, Steps, Planned
  <2> QED
    BY <1>1, <1>2, <2>1, Going, PlannedStep DEF WithdrawMarker, At, Typed
<1>3. CASE PackagesDone
  <2>1. marker' = None
    BY <1>3 DEF PackagesDone, At, live, PlainInv, Withdrawn, Planned
  <2>2. CASE Snapshot(run.kept) = None
    <3>1. "unpoint" \in Steps /\ Go("unpoint")
      BY <1>3, <2>2 DEF PackagesDone, Steps
    <3> QED
      BY <1>1, <1>3, <2>1, <2>2, <3>1, Going, PlannedStep DEF PackagesDone, At, Typed, live
  <2>3. CASE Snapshot(run.kept) # None
    <3>1. "index" \in Steps /\ Go("index")
      BY <1>3, <2>3 DEF PackagesDone, Steps, Planned
    <3> QED
      BY <1>1, <1>3, <2>1, <2>3, <3>1, Going, PlannedStep DEF PackagesDone, At, Typed, live
  <2> QED
    BY <2>2, <2>3
<1>4. CASE \E f \in run.todo : InstallSigned(f)
  <2>1. PICK f \in run.todo : InstallSigned(f)
    BY <1>4
  <2>2. f \in Fact
    BY <1>1 DEF RunRecord
  <2>3. pkgs' \in [Pkg -> {Absent, Unsigned, Signed}]
    BY <1>1, <2>1, <2>2 DEF InstallSigned, Typed, Fact
  <2>4. run' = [run EXCEPT !.todo = run.todo \ {f}]
    BY <2>1 DEF InstallSigned
  <2>5. /\ run' \in RunRecord /\ run'.at = run.at /\ run'.pigsty = run.pigsty
        /\ run'.kept = run.kept /\ run'.stale = run.stale /\ run'.newHistory = run.newHistory
    BY <1>1, <2>4 DEF RunRecord
  <2>6. run.at = "packages" /\ marker' = None
    BY <2>1 DEF InstallSigned, At, live, PlainInv, Withdrawn, Planned
  <2> QED
    BY <1>1, <2>1, <2>3, <2>5, <2>6, PlannedStep DEF InstallSigned, Typed, live
<1>5. CASE \E k \in Kind : InstallIndex(k)
  <2>1. PICK k \in Kind : InstallIndex(k)
    BY <1>5
  <2>2. run.at = "index" /\ Snapshot(run.kept) # None /\ run' = run /\ marker' = None
    BY <2>1 DEF InstallIndex, At, PlainInv, PlanSound, Withdrawn, Planned
  <2>3. Snapshot(run.kept) \in SUBSET Fact
    BY <1>1, <2>2, Rendered DEF RunRecord
  <2>4. indexes' = indexes \union {<<Snapshot(run.kept), k>>}
    BY <2>1 DEF InstallIndex
  <2>5. indexes \subseteq indexes' /\ indexes' \subseteq (SUBSET Fact) \X Kind
    BY <1>1, <2>3, <2>4 DEF Typed
  <2> QED
    BY <1>1, <2>1, <2>2, <2>5, PlannedStep DEF InstallIndex, Typed
<1> QED
  BY <1>2, <1>3, <1>4, <1>5

\* The retention list is installed before the pointer it is for.
LEMMA HistoryStep ==
  ASSUME PlainInv, InstallHistory
  PROVE  PlainInv'
<1> DEFINE next == Snapshot(run.kept)
<1>1. /\ Typed /\ WindowListed /\ run.at = "index" /\ marker = None /\ next # None
      /\ run.newHistory = NewHistory(next) /\ Files(next) \subseteq indexes
      /\ run.stale \cap Files(next) = {}
      /\ run.stale \cap Files(IF repomd = next THEN replaced ELSE repomd) = {}
  BY DEF InstallHistory, At, PlainInv, Withdrawn, PlanSound, Planned
<1>2. /\ history' = (IF run.newHistory = None THEN history ELSE run.newHistory) /\ Go("pointer")
      /\ UNCHANGED <<pkgs, repomd, indexes, deb, marker, replaced, stage, edits, stops>>
  BY DEF InstallHistory
<1>3. "pointer" \in Steps
  BY DEF Steps, Planned
<1>4. /\ run' \in RunRecord /\ run'.at = "pointer" /\ run'.pigsty = run.pigsty /\ run'.kept = run.kept
      /\ run'.stale = run.stale /\ run'.newHistory = run.newHistory
  BY <1>2, <1>3, Going
<1>5. Typed'
  BY <1>1, <1>2, <1>4 DEF Typed, RunRecord
<1>6. next \in SUBSET Fact /\ repomd \in {None} \union SUBSET Fact
  BY <1>1, Rendered DEF Typed, RunRecord
<1>7. repomd \notin {None, next} =>
        /\ history' # None /\ Len(history'.snapshots) >= 2
        /\ history'.snapshots[1] = next /\ history'.snapshots[2] = repomd
        /\ Previous # None => Len(history'.snapshots) = 3 /\ history'.snapshots[3] = Previous
  BY <1>1, <1>2, <1>6, Listed
<1>8. WindowListed'
  <2>1. repomd' = None => replaced' = None
    BY <1>1, <1>2 DEF WindowListed
  <2>2. ASSUME replaced # None  PROVE Matched' /\ Previous' = replaced
    <3>1. Matched /\ Previous = replaced /\ repomd # None
      BY <1>1, <2>2 DEF WindowListed
    <3>2. CASE repomd = next
      <4>1. run.newHistory = None
        BY <1>1, <1>6, <3>1, <3>2, Listed
      <4> QED
        BY <1>2, <3>1, <4>1, SameWindow
    <3>3. CASE repomd # next
      <4>1. /\ history' # None /\ Len(history'.snapshots) = 3 /\ history'.snapshots[1] # repomd
            /\ history'.snapshots[2] = repomd /\ history'.snapshots[3] = replaced
        BY <1>7, <2>2, <3>1, <3>3
      <4>2. /\ 2 \in 1 .. Len(history'.snapshots) /\ repomd' = repomd /\ 2 < Len(history'.snapshots)
            /\ \A j \in 1 .. 2 - 1 : history'.snapshots[j] # repomd
        BY <1>2, <4>1
      <4>3. /\ (Typed /\ repomd # None /\ history # None /\ 2 \in 1 .. Len(history.snapshots)
                /\ history.snapshots[2] = repomd /\ (\A j \in 1 .. 2 - 1 : history.snapshots[j] # repomd)
                /\ 2 < Len(history.snapshots)
                => Matched /\ Previous = history.snapshots[2 + 1])'
        BY PreviousAtNext
      <4> QED
        BY <1>5, <3>1, <4>1, <4>2, <4>3
    <3> QED
      BY <3>2, <3>3
  <2> QED
    BY <1>2, <2>1, <2>2 DEF WindowListed
<1>9. Withdrawn' /\ DroppedOut'
  BY <1>1, <1>2, <1>4 DEF PlainInv, Withdrawn, DroppedOut
<1>10. PlanSound'
  <2>1. next' = next /\ \A snapshot : Files(snapshot)' = Files(snapshot)
    BY <1>4, SameRun
  <2> HIDE DEF next
  <2> QED
    BY <1>1, <1>2, <1>4, <1>7, <2>1 DEF PlanSound, next
<1>11. SwitchSound'
  BY <1>4 DEF SwitchSound, Switched
<1>12. IndexesServed' /\ MarkerTrue'
  BY <1>1, <1>2 DEF PlainInv, IndexesServed, MarkerTrue, Files
<1> QED
  BY <1>5, <1>8, <1>9, <1>10, <1>11, <1>12 DEF PlainInv

\* repomd.xml is replaced: the window moves on by one.
LEMMA PointerStep ==
  ASSUME PlainInv, InstallPointer
  PROVE  PlainInv'
<1> DEFINE next == Snapshot(run.kept)
<1>1. /\ Typed /\ WindowListed /\ IndexesServed /\ run.at = "pointer" /\ marker = None /\ next # None
      /\ Files(next) \subseteq indexes
      /\ run.stale \cap Files(next) = {}
      /\ run.stale \cap Files(IF repomd = next THEN replaced ELSE repomd) = {}
      /\ repomd \notin {None, next} =>
           /\ history # None /\ Len(history.snapshots) >= 2
           /\ history.snapshots[1] = next /\ history.snapshots[2] = repomd
  BY DEF InstallPointer, At, PlainInv, Withdrawn, PlanSound, Planned
<1>2. /\ repomd' = next /\ replaced' = (IF repomd \in {None, next} THEN replaced ELSE repomd) /\ Go("stale")
      /\ UNCHANGED <<pkgs, indexes, history, deb, marker, stage, edits, stops>>
  BY DEF InstallPointer
<1>3. "stale" \in Steps
  BY DEF Steps, Switched
<1>4. /\ run' \in RunRecord /\ run'.at = "stale" /\ run'.pigsty = run.pigsty /\ run'.kept = run.kept
      /\ run'.stale = run.stale /\ run'.newHistory = run.newHistory
  BY <1>2, <1>3, Going
<1>5. next \in SUBSET Fact /\ repomd \in {None} \union SUBSET Fact
  BY <1>1, Rendered DEF Typed, RunRecord
<1>6. Typed'
  BY <1>1, <1>2, <1>4, <1>5 DEF Typed
<1>7. WindowListed'
  <2>1. CASE repomd = None
    BY <1>1, <1>2, <2>1 DEF WindowListed
  <2>2. CASE repomd = next
    BY <1>1, <1>2, <2>2, SameWindow DEF WindowListed
  <2>3. CASE repomd \notin {None, next}
    <3>1. /\ 1 \in 1 .. Len(history'.snapshots) /\ history' # None /\ repomd' = next /\ 1 < Len(history'.snapshots)
          /\ history'.snapshots[1] = repomd' /\ history'.snapshots[2] = repomd /\ replaced' = repomd
          /\ \A j \in 1 .. 1 - 1 : history'.snapshots[j] # repomd'
      <4>1. history \in History
        BY <1>1, <2>3 DEF Typed
      <4>2. Len(history.snapshots) \in Nat
        BY <4>1 DEF History
      <4> QED
        BY <1>1, <1>2, <2>3, <4>2
    <3>2. /\ (Typed /\ repomd # None /\ history # None /\ 1 \in 1 .. Len(history.snapshots)
              /\ history.snapshots[1] = repomd /\ (\A j \in 1 .. 1 - 1 : history.snapshots[j] # repomd)
              /\ 1 < Len(history.snapshots)
              => Matched /\ Previous = history.snapshots[1 + 1])'
      BY PreviousAtNext
    <3> QED
      BY <1>1, <1>6, <2>3, <3>1, <3>2 DEF WindowListed
  <2> QED
    BY <2>1, <2>2, <2>3
<1>8. Withdrawn' /\ DroppedOut'
  BY <1>1, <1>2, <1>4 DEF PlainInv, Withdrawn, DroppedOut
<1>9. PlanSound'
  BY <1>4 DEF PlanSound, Planned
<1>10. next' = next /\ \A snapshot : Files(snapshot)' = Files(snapshot)
  BY <1>4, SameRun
<1>11. run.stale \cap (Files(next) \union Files(replaced')) = {}
  BY <1>1, <1>2, FilesIndexed DEF WindowListed
<1>12. SwitchSound'
  BY <1>2, <1>4, <1>10, <1>11 DEF SwitchSound
<1>13. IndexesServed'
  BY <1>1, <1>2, <1>10 DEF IndexesServed
<1>14. MarkerTrue'
  BY <1>1, <1>2 DEF MarkerTrue
<1> QED
  BY <1>6, <1>7, <1>8, <1>9, <1>12, <1>13, <1>14 DEF PlainInv

\* After the pointer nothing of it and of the window is touched.
LEMMA SwitchedStep ==
  ASSUME PlainInv, run.at \in Switched, run' \in RunRecord, run'.at \in Switched, run'.pigsty = run.pigsty,
         run'.kept = run.kept, run'.newHistory = run.newHistory, marker' = None,
         UNCHANGED <<repomd, replaced, stage, edits, stops>>,
         pkgs' \in [Pkg -> {Absent, Unsigned, Signed}], indexes' \subseteq indexes,
         Files(repomd) \union Files(replaced) \subseteq indexes',
         history' \in {history, None}, history' # history => repomd = None,
         deb' \in [packages : {None} \union SUBSET Fact, gzip : {None} \union SUBSET Fact],
         run'.at \in {"unindex", "unhistory"} => Snapshot(run.kept) = None,
         run'.at = "stale" => run.at = "stale" /\ run'.stale = run.stale,
         run'.at = "deb2" => (IF DebIndex(run.kept) = None THEN deb'.gzip ELSE deb'.packages) = DebIndex(run.kept),
         run'.at = "drop" => deb' = [packages |-> DebIndex(run.kept), gzip |-> DebIndex(run.kept)]
  PROVE  PlainInv'
<1>1. Typed'
  BY DEF PlainInv, Typed
<1>2. WindowListed'
  <2>1. CASE history' = history
    BY <2>1, SameWindow DEF PlainInv, WindowListed
  <2>2. CASE history' # history
    BY <2>2 DEF PlainInv, WindowListed
  <2> QED
    BY <2>1, <2>2
<1>3. Withdrawn' /\ DroppedOut'
  BY DEF PlainInv, Withdrawn, DroppedOut, Switched
<1>4. PlanSound'
  BY DEF PlanSound, Planned, Switched
<1>5. /\ Snapshot(run.kept)' = Snapshot(run.kept) /\ DebIndex(run.kept)' = DebIndex(run.kept)
      /\ \A snapshot : Files(snapshot)' = Files(snapshot)
  BY SameRun
<1>6. SwitchSound'
  <2>1. /\ repomd = Snapshot(run.kept)
        /\ run'.at = "stale" => run.stale \cap (Files(repomd) \union Files(replaced)) = {}
    BY DEF PlainInv, SwitchSound
  <2> QED
    BY <1>5, <2>1 DEF SwitchSound, Switched
<1>7. IndexesServed'
  BY <1>5 DEF IndexesServed
<1>8. MarkerTrue'
  BY DEF MarkerTrue
<1> QED
  BY <1>1, <1>2, <1>3, <1>4, <1>6, <1>7, <1>8 DEF PlainInv

\* What every step after the pointer starts from.
LEMMA AfterSwitch ==
  ASSUME PlainInv, run.at \in Switched
  PROVE  /\ Typed /\ run \in RunRecord /\ marker = None /\ repomd = Snapshot(run.kept)
         /\ Files(repomd) \union Files(replaced) \subseteq indexes
         /\ run.at \in {"unindex", "unhistory"} => repomd = None /\ Snapshot(run.kept) = None
         /\ DebIndex(run.kept) \in {None} \union SUBSET Fact
<1>1. /\ Typed /\ run \in RunRecord /\ marker = None /\ repomd = Snapshot(run.kept)
      /\ Files(repomd) \union Files(replaced) \subseteq indexes
      /\ run.at \in {"unindex", "unhistory"} => repomd = None /\ Snapshot(run.kept) = None
  BY DEF PlainInv, Typed, Withdrawn, SwitchSound, IndexesServed
<1>2. run.kept \in SUBSET Fact
  BY <1>1 DEF RunRecord
<1> QED
  BY <1>1, <1>2, Rendered

\* Stale index files are removed.
LEMMA StaleStep ==
  ASSUME PlainInv, StaleDone \/ (\E file \in run.stale : RemoveStale(file))
  PROVE  PlainInv'
<1>1. run.at \in {"stale", "unindex"} /\ run.at \in Switched
  BY DEF StaleDone, RemoveStale, At, Switched
<1>2. /\ Typed /\ run \in RunRecord /\ marker = None /\ repomd = Snapshot(run.kept)
      /\ Files(repomd) \union Files(replaced) \subseteq indexes
      /\ run.at \in {"unindex", "unhistory"} => repomd = None /\ Snapshot(run.kept) = None
  BY <1>1, AfterSwitch
<1>3. CASE StaleDone
  <2>1. PICK step \in {"deb", "unhistory"} : Go(step) /\ (step = "unhistory" => run.at = "unindex")
    BY <1>1, <1>3 DEF StaleDone, At
  <2>2. step \in Steps /\ step \in Switched
    BY DEF Steps, Switched
  <2> QED
    BY <1>1, <1>2, <1>3, <2>1, <2>2, Going, SwitchedStep DEF StaleDone, live, Typed
<1>4. CASE \E file \in run.stale : RemoveStale(file)
  <2>1. PICK file \in run.stale : RemoveStale(file)
    BY <1>4
  <2>2. /\ indexes' = indexes \ {file} /\ run' = run
        /\ UNCHANGED <<pkgs, repomd, history, deb, marker, replaced, stage, edits, stops>>
    BY <2>1 DEF RemoveStale
  <2>3. file \notin Files(repomd) \union Files(replaced)
    <3>1. CASE run.at = "stale"
      BY <2>1, <3>1 DEF PlainInv, SwitchSound
    <3>2. CASE run.at = "unindex"
      BY <1>2, <3>2, FilesIndexed DEF PlainInv, WindowListed
    <3> QED
      BY <1>1, <3>1, <3>2
  <2> QED
    BY <1>1, <1>2, <2>2, <2>3, SwitchedStep DEF Typed
<1> QED
  BY <1>3, <1>4

\* Without RPMs the pointer goes first ...
LEMMA UnpointStep ==
  ASSUME PlainInv, RemovePointer
  PROVE  PlainInv'
<1>1. Typed /\ run.at = "unpoint" /\ marker = None /\ Snapshot(run.kept) = None
  BY DEF RemovePointer, At, PlainInv, Withdrawn, SwitchSound
<1>2. /\ repomd' = None /\ replaced' = None /\ Go("unindex")
      /\ UNCHANGED <<pkgs, indexes, history, deb, marker, stage, edits, stops>>
  BY DEF RemovePointer
<1>3. "unindex" \in Steps
  BY DEF Steps, Switched
<1>4. /\ run' \in RunRecord /\ run'.at = "unindex" /\ run'.pigsty = run.pigsty /\ run'.kept = run.kept
      /\ run'.newHistory = run.newHistory
  BY <1>2, <1>3, Going
<1>5. Typed'
  BY <1>1, <1>2, <1>4 DEF Typed
<1>6. WindowListed'
  BY <1>2 DEF WindowListed
<1>7. Withdrawn' /\ DroppedOut'
  BY <1>1, <1>2, <1>4 DEF PlainInv, Withdrawn, DroppedOut
<1>8. PlanSound'
  BY <1>4 DEF PlanSound, Planned
<1>9. SwitchSound'
  BY <1>1, <1>2, <1>4, SameRun DEF SwitchSound
<1>10. IndexesServed' /\ MarkerTrue'
  BY <1>1, <1>2 DEF IndexesServed, MarkerTrue, Files
<1> QED
  BY <1>5, <1>6, <1>7, <1>8, <1>9, <1>10 DEF PlainInv

\* ... and the list last.
LEMMA UnhistoryStep ==
  ASSUME PlainInv, RemoveHistory
  PROVE  PlainInv'
<1>1. run.at = "unhistory" /\ run.at \in Switched
  BY DEF RemoveHistory, At, Switched
<1>2. "deb" \in Steps /\ "deb" \in Switched
  BY DEF Steps, Switched
<1> QED
  BY <1>1, <1>2, AfterSwitch, Going, SwitchedStep DEF RemoveHistory, Typed

\* Packages and Packages.gz.
LEMMA DebStep ==
  ASSUME PlainInv, InstallDeb
  PROVE  PlainInv'
<1> DEFINE index == DebIndex(run.kept)
<1>1. run.at \in {"deb", "deb2"} /\ run.at \in Switched
  BY DEF InstallDeb, ChangeDeb, At, Switched
<1>2. Typed /\ index \in {None} \union SUBSET Fact
  BY <1>1, AfterSwitch
<1>3. deb \in [packages : {None} \union SUBSET Fact, gzip : {None} \union SUBSET Fact]
  BY <1>2 DEF Typed
<1>4. "deb2" \in Steps /\ "deb2" \in Switched /\ "drop" \in Steps /\ "drop" \in Switched
  BY DEF Steps, Switched
<1>5. UNCHANGED <<pkgs, repomd, indexes, history, marker, replaced, stage, edits, stops>>
  BY DEF InstallDeb
<1>6. CASE run.at = "deb"
  <2>1. Go("deb2") /\ deb' = [deb EXCEPT ![IF index = None THEN "gzip" ELSE "packages"] = index]
    BY <1>6 DEF InstallDeb, ChangeDeb, At
  <2> HIDE DEF index
  <2>2. /\ deb' \in [packages : {None} \union SUBSET Fact, gzip : {None} \union SUBSET Fact]
        /\ (IF index = None THEN deb'.gzip ELSE deb'.packages) = index
    BY <1>2, <1>3, <2>1
  <2> QED
    BY <1>1, <1>4, <1>5, <2>1, <2>2, AfterSwitch, Going, SwitchedStep DEF Typed, index
<1>7. CASE run.at = "deb2"
  <2>1. Go("drop") /\ deb' = [deb EXCEPT ![IF index = None THEN "packages" ELSE "gzip"] = index]
    BY <1>7 DEF InstallDeb, ChangeDeb, At
  <2>2. (IF index = None THEN deb.gzip ELSE deb.packages) = index
    BY <1>7 DEF PlainInv, SwitchSound
  <2> HIDE DEF index
  <2>3. deb' \in [packages : {None} \union SUBSET Fact, gzip : {None} \union SUBSET Fact]
    BY <1>2, <1>3, <2>1
  <2>4. deb'.packages = index /\ deb'.gzip = index
    BY <1>2, <1>3, <2>1, <2>2
  <2>5. deb' = [packages |-> index, gzip |-> index]
    BY <2>3, <2>4
  <2> QED
    BY <1>1, <1>4, <1>5, <2>1, <2>3, <2>5, AfterSwitch, Going, SwitchedStep DEF Typed, index
<1> QED
  BY <1>1, <1>6, <1>7

\* Packages that --pigsty drops are removed.
LEMMA DropStep ==
  ASSUME PlainInv, NEW p \in Dropped, RemoveDropped(p)
  PROVE  PlainInv'
<1>1. run.at = "drop" /\ run.at \in Switched
  BY DEF RemoveDropped, At, Switched
<1>2. Typed /\ run \in RunRecord /\ p \in Pkg
  BY PlainAssumption DEF PlainInv, Typed, Pkg
<1>3. CASE pkgs[p] = Absent
  BY <1>2, <1>3, ExitStep DEF RemoveDropped, Exit, Typed
<1>4. CASE pkgs[p] # Absent
  <2>1. /\ run' = [run EXCEPT !.all = {f \in run.all : f[1] # p}] /\ pkgs' = [pkgs EXCEPT ![p] = Absent]
        /\ UNCHANGED <<live, stage, edits, stops>>
    BY <1>4 DEF RemoveDropped
  <2>2. /\ run' \in RunRecord /\ run'.at = run.at /\ run'.pigsty = run.pigsty /\ run'.kept = run.kept
        /\ run'.newHistory = run.newHistory
    BY <1>2, <2>1 DEF RunRecord
  <2>3. pkgs' \in [Pkg -> {Absent, Unsigned, Signed}]
    BY <1>2, <2>1 DEF Typed
  <2>4. deb = [packages |-> DebIndex(run.kept), gzip |-> DebIndex(run.kept)]
    BY <1>1 DEF PlainInv, SwitchSound
  <2> QED
    BY <1>1, <2>1, <2>2, <2>3, <2>4, AfterSwitch, SwitchedStep DEF live, Typed
<1> QED
  BY <1>3, <1>4

\* The marker is installed last, over what it describes.
LEMMA MarkerStep ==
  ASSUME PlainInv, InstallMarker
  PROVE  PlainInv'
<1>1. run.at = "drop" /\ run.at \in Switched
  BY DEF InstallMarker, At, Switched
<1>2. /\ Typed /\ run \in RunRecord /\ marker = None /\ repomd = Snapshot(run.kept) /\ WindowListed /\ IndexesServed
      /\ deb = [packages |-> DebIndex(run.kept), gzip |-> DebIndex(run.kept)]
  BY <1>1, AfterSwitch DEF PlainInv, SwitchSound
<1>3. /\ marker' = (IF run.pigsty THEN run.kept ELSE marker) /\ run' = Idle /\ stage' = FALSE
      /\ UNCHANGED <<pkgs, repomd, indexes, history, deb, replaced, edits, stops>>
  BY DEF InstallMarker, Exit
<1>4. Typed'
  BY <1>2, <1>3, IdleTyped DEF Typed, RunRecord, Idle
<1>5. WindowListed' /\ IndexesServed'
  BY <1>2, <1>3, SameWindow DEF WindowListed, IndexesServed, Files
<1>6. MarkerTrue'
  BY <1>2, <1>3 DEF MarkerTrue, Snapshot, DebIndex, OfFormat
<1> QED
  BY <1>3, <1>4, <1>5, <1>6, Ended

-----------------------------------------------------------------------------
(* The user, and runs that stop *)

\* The run goes on while the packages or the marker change.
LEMMA UserStep ==
  ASSUME PlainInv, RemoveMarker \/ (\E p \in Pkg : Edit(p))
  PROVE  PlainInv'
<1>1. /\ marker' \in {marker, None} /\ pkgs' \in [Pkg -> {Absent, Unsigned, Signed}] /\ edits' \in 0 .. MaxEdits
      /\ UNCHANGED <<repomd, indexes, history, deb, replaced, stage, run, stops>>
  <2>1. Typed
    BY DEF PlainInv
  <2>2. edits < MaxEdits /\ edits' = edits + 1
    BY DEF RemoveMarker, Edit
  <2>3. edits' \in 0 .. MaxEdits
    BY <2>1, <2>2, PlainAssumption DEF Typed
  <2>4. CASE RemoveMarker
    BY <2>1, <2>3, <2>4 DEF RemoveMarker, Typed
  <2>5. CASE \E p \in Pkg : Edit(p)
    BY <2>1, <2>3, <2>5 DEF Edit, Typed, live
  <2> QED
    BY <2>4, <2>5
<1>2. Typed'
  BY <1>1 DEF PlainInv, Typed
<1>3. Withdrawn' /\ DroppedOut'
  BY <1>1 DEF PlainInv, Withdrawn, DroppedOut
<1>4. \A snapshot : Files(snapshot)' = Files(snapshot)
  BY DEF Files
<1>5. Snapshot(run.kept)' = Snapshot(run.kept) /\ DebIndex(run.kept)' = DebIndex(run.kept)
  BY <1>1, SameRun
<1>6. PlanSound'
  BY <1>1, <1>4, <1>5, SameWindow DEF PlainInv, PlanSound
<1>7. SwitchSound'
  BY <1>1, <1>4, <1>5 DEF PlainInv, SwitchSound
<1> QED
  BY <1>1, <1>2, <1>3, <1>6, <1>7, LiveKept DEF PlainInv

\* The list is lost between two runs.
LEMMA LoseStep ==
  ASSUME PlainInv, LoseHistory
  PROVE  PlainInv'
<1>1. /\ run = Idle /\ run' = Idle /\ replaced' = None /\ history' \in {None, [snapshots |-> <<>>]}
      /\ edits < MaxEdits /\ edits' = edits + 1
      /\ UNCHANGED <<pkgs, repomd, indexes, deb, marker, stage, stops>>
  BY DEF LoseHistory
<1>2. [snapshots |-> <<>>] \in History /\ Len(<<>>) = 0
  BY DEF History
<1>3. history' \in {None} \union History /\ (history' # None => Len(history'.snapshots) <= 3)
  BY <1>1, <1>2
<1>4. Typed'
  BY <1>1, <1>3, PlainAssumption DEF PlainInv, Typed
<1>5. WindowListed'
  BY <1>1 DEF WindowListed
<1>6. IndexesServed'
  BY <1>1 DEF PlainInv, IndexesServed, Files
<1>7. MarkerTrue'
  BY <1>1 DEF PlainInv, MarkerTrue, Snapshot, DebIndex, OfFormat
<1> QED
  BY <1>1, <1>4, <1>5, <1>6, <1>7, Ended

\* A run is killed or fails.
LEMMA StopStep ==
  ASSUME PlainInv, Stop
  PROVE  PlainInv'
<1>1. stops' \in 0 .. MaxStops
  BY PlainAssumption DEF Stop, PlainInv, Typed
<1>2. stage' \in BOOLEAN
  BY DEF Stop, PlainInv, Typed
<1> QED
  BY <1>1, <1>2, ExitStep DEF Stop

-----------------------------------------------------------------------------
(* The theorems *)

\* The invariant holds before the first run.
LEMMA InitInv == Init => PlainInv
<1> SUFFICES ASSUME Init  PROVE PlainInv
  OBVIOUS
<1>1. Typed
  <2>1. pkgs \in [Pkg -> {Absent, Unsigned, Signed}] /\ edits \in 0 .. MaxEdits /\ stops \in 0 .. MaxStops
    BY PlainAssumption DEF Init
  <2>2. run.newHistory = None
    BY DEF Init, Idle
  <2> QED
    BY <2>1, <2>2, IdleTyped DEF Init, Typed
<1>2. run.at = "idle"
  BY DEF Init, Idle
<1>3. WindowListed /\ IndexesServed /\ MarkerTrue
  BY DEF Init, WindowListed, IndexesServed, MarkerTrue, Files
<1>4. Withdrawn /\ DroppedOut /\ PlanSound /\ SwitchSound
  BY <1>2 DEF Withdrawn, DroppedOut, PlanSound, SwitchSound, Planned, Switched
<1> QED
  BY <1>1, <1>3, <1>4 DEF PlainInv

\* Every step of a run, of the user and every stop keeps the invariant.
LEMMA StepInv == PlainInv /\ [Next]_vars => PlainInv'
<1> SUFFICES ASSUME PlainInv, [Next]_vars  PROVE PlainInv'
  OBVIOUS
<1>1. CASE Step
  BY <1>1, ScanStep, RenderStep, PrepareStep, InstallStep, HistoryStep, PointerStep, StaleStep, UnpointStep,
     UnhistoryStep, DebStep, DropStep, MarkerStep DEF Step
<1>2. CASE UNCHANGED vars
  <2>1. UNCHANGED <<pkgs, repomd, indexes, history, deb, marker, stage, run, replaced, edits, stops>>
    BY <1>2 DEF vars
  <2>2. Typed' /\ Withdrawn' /\ DroppedOut'
    BY <2>1 DEF PlainInv, Typed, Withdrawn, DroppedOut
  <2>3. PlanSound' /\ SwitchSound'
    BY <2>1, SameWindow, SameRun DEF PlainInv, PlanSound, SwitchSound
  <2> QED
    BY <2>1, <2>2, <2>3, LiveKept DEF PlainInv
<1> QED
  BY <1>1, <1>2, StartStep, UserStep, LoseStep, StopStep DEF Next

\* What is live, the retention list and the step of the run agree, wherever
\* runs stop and whatever the user changes meanwhile.
THEOREM Invariance == Spec => []PlainInv
BY InitInv, StepInv, PTL DEF Spec

\* Wherever runs of create stop, readers find the files of the pointer they
\* hold and of the one before it, and a marker describes what is served.
THEOREM PlainSafeHolds == Spec => []PlainSafe
<1>1. PlainInv => PlainSafe
  BY DEF PlainInv, PlainSafe, Typed, TypeOK, RunRecord
<1> QED
  BY <1>1, Invariance, PTL

\* A run takes a package out of the directory only when no index names it.
THEOREM PrunedUnindexedHolds == Spec => PrunedUnindexed
<1> DEFINE Pruned == \A p \in Pkg :
             (run' # run /\ pkgs[p] # Absent /\ pkgs'[p] = Absent) =>
               \A index \in {repomd, deb.packages, deb.gzip} :
                 index # None => p \notin {f[1] : f \in index}
<1>1. ASSUME PlainInv, [Next]_vars  PROVE Pruned
  <2> SUFFICES ASSUME NEW p \in Pkg, run' # run, pkgs[p] # Absent, pkgs'[p] = Absent,
                      NEW index \in {repomd, deb.packages, deb.gzip}, index # None
               PROVE  p \notin {f[1] : f \in index}
    OBVIOUS
  <2>1. Typed /\ run \in RunRecord
    BY <1>1 DEF PlainInv, Typed
  <2>2. ASSUME NEW f \in run.todo, InstallSigned(f)  PROVE FALSE
    <3>1. f \in Fact /\ f[2] # Absent
      BY <2>1 DEF RunRecord, Fact, Absent, Unsigned, Signed
    <3> QED
      BY <2>1, <2>2, <3>1 DEF InstallSigned, Typed
  <2>3. PICK q \in Dropped : RemoveDropped(q)
    BY <1>1, <2>2
       DEF Next, Step, vars, live, ScanPackages, RenderStage, PreparePublication, WithdrawMarker,
           PackagesDone, InstallHistory, InstallPointer, StaleDone, RemovePointer, RemoveHistory,
           InstallDeb, InstallMarker, InstallIndex, RemoveStale, Start, Edit, RemoveMarker,
           LoseHistory, Stop
  <2>4. q = p /\ run.at = "drop" /\ run.pigsty
    BY <2>1, <2>3 DEF RemoveDropped, At, Typed, ToDrop
  <2>5. /\ repomd = Snapshot(run.kept) /\ deb = [packages |-> DebIndex(run.kept), gzip |-> DebIndex(run.kept)]
        /\ \A f \in run.kept : f[1] # p
    BY <1>1, <2>3, <2>4 DEF PlainInv, SwitchSound, Switched, DroppedOut
  <2>6. index \subseteq run.kept
    BY <2>1, <2>5, Rendered DEF RunRecord
  <2> QED
    BY <2>5, <2>6
<1> QED
  BY <1>1, Invariance, PTL DEF Spec, PrunedUnindexed
=============================================================================
