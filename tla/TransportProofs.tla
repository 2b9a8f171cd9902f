--------------------------- MODULE TransportProofs ---------------------------
(***************************************************************************)
(* The safety properties of ObjectTransport, for any set of keys, any plan *)
(* and any limits: the pool of workers keeps the order of the listing and  *)
(* never hangs, no upload stays open behind its command, no write replaces *)
(* what the plan did not expect, an accepted inventory is exact, and the   *)
(* public verification gives the cache all the time it may take.           *)
(***************************************************************************)
EXTENDS ObjectTransport, TLAPS, FiniteSetTheorems, NaturalsInduction, WellFoundedInduction

At == {"idle", "list", "pool", "head", "create", "parts", "send", "wait", "abort", "confirm",
       "written", "verify", "get", "stale", "probed", "transient", "sleep", "published"}

\* While these last, an object is being written.
Putting == {"create", "parts", "send", "wait", "abort", "confirm", "written"}

\* While these last, an object is being read through the cache.
Reading == {"get", "stale", "probed", "transient", "sleep"}

Request == [id : Nat, key : Plan, upload : Nat, condition : Content]

Slot == [result : {"empty", "ok", "error"}, job : Nat]

Slots == UNION {[0 .. size - 1 -> Slot] : size \in Nat}

Command == [at : At, done : SUBSET Plan, key : Nat, upload : Nat, request : Nat, attempt : Nat]

Listing ==
  [page : Seq(Listed), from : Nat, next : Nat, seen : SUBSET Nat, previous : Nat,
   before : [Key -> Content] \union {<<>>}, foreign : Nat, jobs : Seq(Nat), busy : SUBSET Nat,
   slots : Slots, objects : Seq(Listed), failed : BOOLEAN]

Verification ==
  [todo : SUBSET Plan, key : Nat, stale : Nat, transient : Nat, backoff : 0 .. MaxBackoff,
   sleep : 0 .. MaxBackoff, slow : BOOLEAN]

Typed ==
  /\ remote \in [Key -> Content]
  /\ uploads \in Seq(Upload)
  /\ net \in SUBSET Request /\ IsFiniteSet(net)
  /\ cache \in [Key -> [content : Content, left : 0 .. MaxCacheTTL]]
  /\ pc \in Command
  /\ list \in Listing
  /\ check \in Verification
  /\ used \in [faults : Nat, stops : Nat, foreign : Nat]

-----------------------------------------------------------------------------
(* What is under way *)

\* A request under way carries the condition of the plan, no two have the same
\* number, and the one the command waits for is for the upload it works on.
NetSound ==
  /\ \A r \in net : r.condition = Base(r.key) /\ r.upload <= Len(uploads)
  /\ \A q, r \in net : q.id = r.id => q = r
  /\ pc.at = "wait" => \A r \in net : r.id = pc.request => r.upload = pc.upload
  /\ pc.at \in Putting => pc.key \in Plan

\* The upload that may be open is the command's, and the command still has its
\* parts to send, its completion, or its abort before it.
UploadSound ==
  /\ pc.upload <= Len(uploads)
  /\ \A u \in 1 .. Len(uploads) : uploads[u].state = "open" => pc.upload = u
  /\ pc.at \in {"parts", "abort"} => pc.upload # 0
  /\ pc.at \notin Putting \/ pc.at = "create" => pc.upload = 0
  /\ pc.at \in {"confirm", "written"} /\ pc.upload # 0 => uploads[pc.upload].state # "open"

\* What the command has written is there as long as nobody else writes.
DoneServed == used.foreign = 0 => \A k \in pc.done : remote[k] = "new"

\* An old copy of the object being read is gone before the deadline for it.
VerifySound ==
  /\ check.todo \subseteq pc.done
  /\ pc.at = "idle" => check.todo = {}
  /\ pc.at \in Reading => check.key \in check.todo
  /\ used.foreign = 0 /\ pc.at \in Reading =>
       \/ cache[check.key].content = "new"
       \/ cache[check.key].left <= check.stale
  /\ used.foreign = 0 /\ pc.at \in {"stale", "probed"} /\ ~check.slow => check.stale > 0

-----------------------------------------------------------------------------
(* The pool of workers *)

Taken == Len(list.objects) - list.from

\* Jobs are sent up to here.
Sent == IF Taken + PoolSize < Len(list.page) THEN Taken + PoolSize ELSE Len(list.page)

\* Workers have taken the jobs up to here.
Begun == Sent - Len(list.jobs)

\* A result is stored in the slot of its job, until it is taken.
Stored(s) ==
  LET job == list.slots[s].job
  IN /\ job \in Taken .. Begun - 1
     /\ job % PoolSize = s
     /\ job \notin list.busy
     /\ list.slots[s].result \in {"ok", "error"}
     /\ list.slots[s].result = "ok" => list.page[job + 1].key > Previous(job)

\* The jobs that are sent and whose result is not taken are as many as there
\* are slots at most, and consecutive, so that no two of them share a slot.
PoolOrdered ==
  pc.at = "pool" =>
    /\ Taken \in 0 .. Len(list.page)
    /\ Len(list.jobs) <= Sent - Taken
    /\ \A n \in 1 .. Len(list.jobs) : list.jobs[n] = Begun + n - 1
    /\ list.busy \subseteq Taken .. Begun - 1
    /\ list.slots \in [0 .. PoolSize - 1 -> Slot]
    /\ \A s \in 0 .. PoolSize - 1 : list.slots[s] = EmptySlot \/ Stored(s)
    /\ \A n \in 1 .. Taken : /\ list.objects[list.from + n] = list.page[n]
                             /\ list.page[n].key > list.previous
                             /\ \A m \in 1 .. n - 1 : list.page[m].key < list.page[n].key

\* Outside a page nothing of the pool is left, outside a listing nothing of it.
ListIdle ==
  /\ pc.at \notin {"list", "pool"} => list = NoList
  /\ pc.at = "list" => /\ list.page = <<>> /\ list.jobs = <<>> /\ list.busy = {} /\ ~list.failed
                       /\ list.next = list.previous

-----------------------------------------------------------------------------
(* The inventory *)

\* The objects of the pages before are in order and end with the token.
ObjectsOrdered ==
  pc.at \in {"list", "pool"} =>
    LET old == IF pc.at = "list" THEN Len(list.objects) ELSE list.from
    IN /\ old <= Len(list.objects)
       /\ \A m, n \in 1 .. old : m < n => list.objects[m].key < list.objects[n].key
       /\ \A n \in 1 .. old : list.objects[n].key <= list.previous
       /\ list.previous # 0 => \E n \in 1 .. old : list.objects[n].key = list.previous
       /\ \A t \in list.seen : t <= list.previous
       /\ pc.at = "pool" /\ list.next # 0 =>
            Len(list.page) > 0 /\ list.page[Len(list.page)].key = list.next

\* An object is as it was found, or was written since.
Found(e) ==
  \/ remote[e.key] = e.etag
  \/ remote[e.key] = "new" /\ list.before[e.key] # "new"

\* An object that is there and was there all the time.
Steady(k) == remote[k] # "none" /\ remote[k] = list.before[k]

\* The page goes on where the last one ended, or repeats what was listed.
PageGoesOn ==
  \/ \A k \in Key : Steady(k) /\ k > list.previous /\ (list.next = 0 \/ k <= list.next) =>
       \E n \in 1 .. Len(list.page) : list.page[n].key = k
  \/ Len(list.page) > 0 /\ list.page[1].key <= list.previous

\* As long as nobody else writes, what the listing has so far is what was there.
ListSound ==
  pc.at \in {"list", "pool"} =>
    /\ list.foreign <= used.foreign
    /\ list.before \in [Key -> Content]
    /\ list.foreign = used.foreign =>
         /\ \A k \in Key : remote[k] \in {list.before[k], "new"}
         /\ \A n \in 1 .. Len(list.objects) : Found(list.objects[n])
         /\ \A n \in 1 .. Len(list.page) : Found(list.page[n])
         /\ \A k \in Key : Steady(k) /\ k <= list.previous =>
              \E n \in 1 .. Len(list.objects) : list.objects[n].key = k
         /\ pc.at = "pool" => PageGoesOn

\* The inductive invariant.
TransportInv ==
  /\ Typed
  /\ NetSound /\ UploadSound /\ DoneServed /\ VerifySound
  /\ PoolOrdered /\ ListIdle
  /\ ObjectsOrdered /\ ListSound

-----------------------------------------------------------------------------
(* Numbers and finite sets *)

\* A set of numbers that is not empty has a least element, and Min is it.
LEMMA LeastElement ==
  ASSUME NEW S \in SUBSET Nat, S # {}
  PROVE  Min(S) \in S /\ \A y \in S : Min(S) <= y
<1> DEFINE R == {ss \in Nat \X Nat : ss[1] < ss[2]}
<1>1. IsWellFoundedOn(R, Nat)
  BY NatLessThanWellFounded DEF OpToRel
<1>2. PICK x \in S : \A y \in S : ~(<<y, x>> \in R)
  <2> HIDE DEF R
  <2> QED
    BY <1>1, WFMin, Zenon
<1>3. \A y \in S : <<y, x>> \in Nat \X Nat /\ <<y, x>>[1] = y /\ <<y, x>>[2] = x
  OBVIOUS
<1>4. \A y \in S : ~(y < x)
  BY <1>2, <1>3
<1>5. \A y \in S : x <= y
  BY <1>4
<1> QED
  BY <1>5 DEF Min

\* Numbers that are closer than the number of slots do not share a slot.
LEMMA SlotsDistinct ==
  ASSUME NEW size \in Nat, size > 0, NEW m \in Nat, NEW n \in Nat,
         m % size = n % size, m - n < size, n - m < size
  PROVE  m = n
<1> DEFINE p == m \div size
           q == n \div size
<1>1. /\ p \in Int /\ q \in Int
      /\ m = size * p + (m % size) /\ n = size * q + (n % size)
  BY SMT
<1> HIDE DEF p, q
<1>2. m - n = size * (p - q)
  BY <1>1, SMT
<1>3. CASE p - q >= 1
  <2>1. size * (p - q) >= size
    BY <1>1, <1>3, SMT
  <2> QED
    BY <1>2, <2>1, SMT
<1>4. CASE p - q <= -1
  <2>1. size * (p - q) <= -size
    BY <1>1, <1>4, SMT
  <2> QED
    BY <1>2, <2>1, SMT
<1>5. CASE p = q
  BY <1>1, <1>5, SMT
<1> QED
  BY <1>1, <1>3, <1>4, <1>5, SMT

\* What is left of a number and what is taken from it.
LEMMA Difference ==
  \A a, b, c \in Nat : a = b - c =>
    b - a = c /\ \A d \in Nat : d <= c => a <= b - d
OBVIOUS

\* A slot number is one of the pool's.
LEMMA SlotInPool ==
  ASSUME NEW size \in Nat, size > 0, NEW n \in Nat
  PROVE  n % size \in 0 .. size - 1
BY SMT

-----------------------------------------------------------------------------
(* A page of the listing *)

\* The place of a number in the order of a set.
Rank(S, k) == Cardinality({j \in S : j <= k})

\* A greater number has a later place, and there is one place for each number.
LEMMA RankOrder ==
  ASSUME NEW S \in SUBSET Nat, IsFiniteSet(S), NEW k \in S, NEW l \in S
  PROVE  /\ Rank(S, k) \in 1 .. Cardinality(S)
         /\ k < l => Rank(S, k) < Rank(S, l)
<1> DEFINE Below(m) == {j \in S : j <= m}
<1>0. \A j \in S : j \in Nat
  OBVIOUS
<1>1. ASSUME NEW m \in S
      PROVE  IsFiniteSet(Below(m)) /\ Cardinality(Below(m)) \in Nat /\ Cardinality(Below(m)) <= Cardinality(S)
  <2>1. Below(m) \in SUBSET S
    OBVIOUS
  <2> HIDE DEF Below
  <2> QED
    BY <2>1, FS_Subset, FS_CardinalityType
<1>2. Cardinality(Below(k)) # 0
  <2>1. k \in Below(k)
    OBVIOUS
  <2> QED
    BY <1>1, <2>1, FS_EmptySet
<1>3. ASSUME k < l  PROVE Cardinality(Below(k)) < Cardinality(Below(l))
  <2>1. Below(k) \in SUBSET Below(l) /\ l \in Below(l) /\ l \notin Below(k)
    <3>1. k \in Nat /\ l \in Nat
      BY <1>0
    <3>2. \A j \in S : j <= k => j <= l
      BY <1>0, <1>3, <3>1
    <3>3. l <= l /\ ~(l <= k)
      BY <1>3, <3>1
    <3> QED
      BY <3>2, <3>3
  <2> HIDE DEF Below
  <2>2. Cardinality(Below(k)) <= Cardinality(Below(l)) /\ Cardinality(Below(l)) # Cardinality(Below(k))
    BY <1>1, <2>1, FS_Subset
  <2> QED
    BY <1>1, <2>2
<1>4. Cardinality(S) \in Nat
  BY FS_CardinalityType
<1> QED
  BY <1>1, <1>2, <1>3, <1>4 DEF Rank

\* Every place is taken.
LEMMA RankTaken ==
  ASSUME NEW S \in SUBSET Nat, IsFiniteSet(S), NEW n \in 1 .. Cardinality(S)
  PROVE  \E k \in S : Rank(S, k) = n
<1>0. Cardinality(S) \in Nat /\ \A j \in S : j \in Nat
  BY FS_CardinalityType
<1> DEFINE Free == {i \in 1 .. Cardinality(S) : ~\E k \in S : Rank(S, k) = i}
<1> SUFFICES ASSUME Free # {}  PROVE FALSE
  OBVIOUS
<1> DEFINE least == Min(Free)
<1>1. least \in Free /\ \A i \in Free : least <= i
  <2>1. Free \in SUBSET Nat
    BY <1>0
  <2> HIDE DEF Free
  <2> QED
    BY <2>1, LeastElement
<1> HIDE DEF least
<1>2. least \in 1 .. Cardinality(S) /\ ~\E k \in S : Rank(S, k) = least
  BY <1>1
<1> DEFINE Below(m) == {j \in S : j <= m}
<1>3. CASE least = 1
  <2> DEFINE first == Min(S)
  <2>1. S # {}
    BY <1>0, <1>2, FS_EmptySet
  <2>2. first \in S /\ \A j \in S : first <= j
    BY <2>1, LeastElement
  <2> HIDE DEF first
  <2>3. Below(first) = {first}
    <3>1. \A j \in S : j <= first <=> j = first
      BY <1>0, <2>2
    <3> QED
      BY <2>2, <3>1
  <2>4. Rank(S, first) = 1
    BY <2>3, FS_Singleton DEF Rank
  <2> QED
    BY <1>2, <1>3, <2>2, <2>4
<1>4. CASE least > 1
  <2>1. PICK k \in S : Rank(S, k) = least - 1
    <3>1. least - 1 \in 1 .. Cardinality(S) /\ ~(least <= least - 1)
      BY <1>0, <1>2, <1>4
    <3> QED
      BY <1>1, <3>1
  <2> DEFINE Above == {j \in S : j > k}
             after == Min(Above)
  <2>2. Above # {}
    <3> SUFFICES ASSUME Above = {}  PROVE FALSE
      OBVIOUS
    <3>1. Below(k) = S
      <4>1. \A j \in S : ~(j > k)
        OBVIOUS
      <4>2. \A j \in S : j <= k
        BY <1>0, <4>1
      <4> QED
        BY <4>2
    <3>2. Rank(S, k) = Cardinality(S)
      BY <3>1 DEF Rank
    <3> QED
      BY <1>0, <1>2, <2>1, <3>2
  <2>3. after \in Above /\ \A j \in Above : after <= j
    <3>1. Above \in SUBSET Nat
      OBVIOUS
    <3> HIDE DEF Above
    <3> QED
      BY <2>2, <3>1, LeastElement
  <2> HIDE DEF after
  <2>4. Below(after) = Below(k) \union {after} /\ after \notin Below(k)
    <3>1. after \in S /\ after > k /\ \A j \in S : j > k => after <= j
      BY <2>3
    <3>2. \A j \in S : j <= after <=> j <= k \/ j = after
      BY <1>0, <3>1
    <3>3. ~(after <= k)
      BY <1>0, <3>1
    <3> QED
      BY <3>1, <3>2, <3>3
  <2>5. IsFiniteSet(Below(k))
    <3>1. Below(k) \in SUBSET S
      OBVIOUS
    <3> HIDE DEF Below
    <3> QED
      BY <3>1, FS_Subset
  <2>6. Rank(S, after) = Rank(S, k) + 1
    <3> HIDE DEF Below
    <3>1. Cardinality(Below(k) \union {after}) = Cardinality(Below(k)) + 1
      BY <2>4, <2>5, FS_AddElement
    <3>2. Rank(S, after) = Cardinality(Below(after)) /\ Rank(S, k) = Cardinality(Below(k))
      BY DEF Rank, Below
    <3> QED
      BY <2>4, <3>1, <3>2
  <2> QED
    BY <1>2, <2>1, <2>3, <2>6
<1> QED
  BY <1>0, <1>2, <1>3, <1>4

\* What a page holds: the first keys after the token that have an object, each
\* with what is in the bucket; and the token for the next page is its last key.
LEMMA PageHolds ==
  ASSUME Typed, NEW token \in Nat
  PROVE  LET page == PageAfter(token)
             keys == {k \in Key : k > token /\ remote[k] # "none"}
         IN /\ page.objects \in Seq(Listed)
            /\ page.next \in Nat
            /\ \A n \in 1 .. Len(page.objects) :
                 page.objects[n].key \in keys /\ page.objects[n].etag = remote[page.objects[n].key]
            /\ \A k \in keys : page.next = 0 \/ k <= page.next =>
                 \E n \in 1 .. Len(page.objects) : page.objects[n].key = k
            /\ page.next # 0 =>
                 Len(page.objects) > 0 /\ page.objects[Len(page.objects)].key = page.next
            /\ \A k \in keys : Len(page.objects) > 0 /\ page.objects[1].key <= k
<1> DEFINE page == PageAfter(token)
           keys == {k \in Key : k > token /\ remote[k] # "none"}
           Nth(n) == CHOOSE k \in keys : Rank(keys, k) = n
           all == Cardinality(keys)
           size == IF all < PageSize THEN all ELSE PageSize
<1>1. keys \in SUBSET Nat /\ keys \subseteq Key /\ IsFiniteSet(keys) /\ all \in Nat
  <2>1. keys \in SUBSET Key /\ IsFiniteSet(Key) /\ Key \subseteq Nat
    BY TransportAssumption
  <2> HIDE DEF keys
  <2> QED
    BY <2>1, FS_Subset, FS_CardinalityType
<1>2. /\ page.objects = [n \in 1 .. size |-> [key |-> Nth(n), etag |-> remote[Nth(n)]]]
      /\ page.next = IF all > size THEN Nth(size) ELSE 0
  BY DEF PageAfter, Rank
<1>0. \A k \in keys : k \in Nat
  BY <1>1
<1>3. \A k \in keys : k \in Key /\ k # 0 /\ k > token /\ remote[k] \in Content \ {"none"}
  BY TransportAssumption DEF Typed
<1> HIDE DEF page, keys
<1>4. size \in Nat /\ size <= all /\ PageSize \in Nat \ {0} /\ (all > size => size = PageSize)
  BY <1>1, TransportAssumption
<1>5. \A n \in 1 .. all : Nth(n) \in keys /\ Rank(keys, Nth(n)) = n
  BY <1>1, RankTaken
<1>6. \A k, l \in keys : Rank(keys, k) \in 1 .. all /\ (k < l => Rank(keys, k) < Rank(keys, l))
  BY <1>1, RankOrder
<1>7. \A k \in keys : Nth(Rank(keys, k)) = k
  <2> SUFFICES ASSUME NEW k \in keys  PROVE Nth(Rank(keys, k)) = k
    OBVIOUS
  <2> DEFINE n == Rank(keys, k)
             l == Nth(n)
  <2>1. n \in 1 .. all /\ n \in Nat
    BY <1>1, <1>6
  <2>2. l \in keys /\ Rank(keys, l) = n
    BY <1>5, <2>1
  <2> HIDE DEF l
  <2>3. ~(k < l) /\ ~(l < k)
    BY <1>6, <2>1, <2>2
  <2>4. k \in Nat /\ l \in Nat
    BY <1>1, <2>2
  <2>5. k = l
    BY <2>3, <2>4
  <2> QED
    BY <2>5 DEF l
<1> HIDE DEF Nth, all, size
<1>8. /\ page.objects \in Seq(Listed) /\ Len(page.objects) = size
      /\ \A n \in 1 .. size : page.objects[n].key = Nth(n) /\ page.objects[n].etag = remote[Nth(n)]
      /\ \A n \in 1 .. size : Nth(n) \in keys
  <2>1. \A n \in 1 .. size : Nth(n) \in keys
    BY <1>1, <1>4, <1>5
  <2>2. \A n \in 1 .. size : [key |-> Nth(n), etag |-> remote[Nth(n)]] \in Listed
    BY <1>3, <2>1 DEF Listed
  <2> QED
    BY <1>2, <1>4, <2>1, <2>2
<1>9. page.next \in Nat
  <2>1. CASE all > size
    <3>1. size \in 1 .. size
      BY <1>4, <2>1
    <3>2. Nth(size) \in Nat
      BY <1>0, <1>8, <3>1
    <3> QED
      BY <1>2, <2>1, <3>2
  <2>2. CASE ~(all > size)
    BY <1>2, <2>2
  <2> QED
    BY <2>1, <2>2
<1>10. ASSUME NEW k \in keys, page.next = 0 \/ k <= page.next
       PROVE  \E n \in 1 .. size : page.objects[n].key = k
  <2>1. Rank(keys, k) \in 1 .. all
    BY <1>6
  <2>2. Rank(keys, k) <= size
    <3>1. CASE all > size
      <4>1. size \in 1 .. all /\ Nth(size) \in keys /\ Rank(keys, Nth(size)) = size
        BY <1>1, <1>4, <1>5, <3>1
      <4>2. page.next = Nth(size) /\ page.next # 0
        BY <1>2, <1>3, <3>1, <4>1
      <4>3. k = Nth(size) \/ k < Nth(size)
        BY <1>0, <1>10, <4>1, <4>2
      <4> QED
        <5>1. CASE k = Nth(size)
          BY <1>4, <4>1, <5>1
        <5>2. CASE k < Nth(size)
          <6>1. Rank(keys, k) < Rank(keys, Nth(size))
            BY <1>6, <4>1, <5>2
          <6>2. Rank(keys, k) \in Nat
            BY <1>1, <2>1
          <6> QED
            BY <1>4, <4>1, <6>1, <6>2
        <5> QED
          BY <4>3, <5>1, <5>2
    <3>2. CASE ~(all > size)
      BY <1>1, <1>4, <2>1, <3>2
    <3> QED
      BY <3>1, <3>2
  <2> QED
    BY <1>1, <1>4, <1>7, <1>8, <2>1, <2>2
<1>11. ASSUME page.next # 0
       PROVE  size > 0 /\ page.objects[size].key = page.next
  BY <1>1, <1>2, <1>4, <1>8, <1>11
<1>12. ASSUME NEW k \in keys
       PROVE  size > 0 /\ page.objects[1].key <= k
  <2>1. Rank(keys, k) \in 1 .. all
    BY <1>6
  <2>2. size > 0 /\ 1 \in 1 .. size /\ 1 \in 1 .. all
    BY <1>1, <1>4, <2>1
  <2>3. Nth(1) \in keys /\ Rank(keys, Nth(1)) = 1
    BY <1>5, <2>2
  <2>4. ~(k < Nth(1))
    <3>1. Rank(keys, k) \in Nat /\ Rank(keys, k) >= 1
      BY <1>1, <2>1
    <3> QED
      BY <1>6, <2>3, <3>1
  <2>5. k \in Nat /\ Nth(1) \in Nat
    BY <1>1, <2>3
  <2> QED
    BY <1>8, <2>2, <2>4, <2>5
<1> QED
  BY <1>8, <1>9, <1>10, <1>11, <1>12 DEF page, keys

-----------------------------------------------------------------------------
(* What several steps have in common *)

Counts == [faults : Nat, stops : Nat, foreign : Nat]

\* A fault is counted, and is nobody's write.
LEMMA FaultCounted ==
  ASSUME Typed, Fault \/ UNCHANGED used
  PROVE  used' \in Counts /\ used'.foreign = used.foreign
BY DEF Typed, Fault, Counts

\* The plan names keys.
LEMMA PlanKeys == Plan \subseteq Key /\ Key \subseteq Nat \ {0} /\ \A k \in Key : Base(k) \in {"old", "none"}
BY TransportAssumption DEF Plan, Base

\* A listing that is not under way is empty.
LEMMA EmptyListing == NoList \in Listing /\ NoCheck \in Verification /\ Idle \in Command
<1>1. <<>> \in Slots
  <2>1. 0 \in Nat /\ [s \in 0 .. 0 - 1 |-> EmptySlot] \in [0 .. 0 - 1 -> Slot]
    BY DEF EmptySlot, Slot
  <2>2. [s \in 0 .. 0 - 1 |-> EmptySlot] = <<>>
    OBVIOUS
  <2> QED
    BY <2>1, <2>2 DEF Slots
<1>2. NoList \in Listing
  BY <1>1 DEF NoList, Listing
<1>3. NoCheck \in Verification
  BY TransportAssumption DEF NoCheck, Verification
<1> QED
  BY <1>2, <1>3 DEF Idle, Command, At

\* Nothing is known of a listing outside one.
LEMMA OutsideListing ==
  ASSUME pc'.at \notin {"list", "pool"}, list' = NoList
  PROVE  PoolOrdered' /\ ListIdle' /\ ObjectsOrdered' /\ ListSound'
BY DEF PoolOrdered, ListIdle, ObjectsOrdered, ListSound

\* A command that is not sending an object has no upload open.
LEMMA NoneOpen ==
  ASSUME TransportInv, pc.at \notin Putting \/ pc.at \in {"create", "confirm", "written"}
  PROVE  \A u \in 1 .. Len(uploads) : uploads[u].state # "open"
BY DEF TransportInv, Typed, UploadSound, Putting

\* A command that ends leaves what it sent under way.
LEMMA FailedStep ==
  ASSUME TransportInv, Failed, remote' = remote, net' = net, cache' = cache, used' \in Counts,
         uploads' \in Seq(Upload), Len(uploads') = Len(uploads),
         \A u \in 1 .. Len(uploads') : uploads'[u].state # "open"
  PROVE  TransportInv'
<1>1. pc' = Idle /\ list' = NoList /\ check' = NoCheck
  BY DEF Failed
<1>2. /\ pc'.at = "idle" /\ pc'.done = {} /\ pc'.upload = 0
      /\ check'.todo = {}
  BY <1>1 DEF Idle, NoCheck
<1>3. Typed'
  BY <1>1, EmptyListing DEF TransportInv, Typed, Counts
<1>4. NetSound'
  BY <1>2 DEF TransportInv, NetSound, Putting
<1>5. UploadSound'
  <2>1. Len(uploads') \in Nat
    OBVIOUS
  <2> QED
    BY <1>2, <2>1 DEF UploadSound, Putting
<1>6. DoneServed' /\ VerifySound'
  BY <1>2 DEF DoneServed, VerifySound, Reading
<1> QED
  BY <1>1, <1>2, <1>3, <1>4, <1>5, <1>6, OutsideListing DEF TransportInv

\* A number is free for the next request.
LEMMA FreshNumber ==
  ASSUME Typed
  PROVE  LET id == Min((1 .. Cardinality(net) + 1) \ {r.id : r \in net})
         IN id \in Nat /\ \A r \in net : r.id # id
<1> DEFINE count == Cardinality(net)
           ids == {r.id : r \in net}
           free == (1 .. count + 1) \ ids
<1>1. count \in Nat /\ IsFiniteSet(net)
  BY FS_CardinalityType DEF Typed
<1>2. free # {}
  <2> SUFFICES ASSUME \A n \in 1 .. count + 1 : \E r \in net : r.id = n  PROVE FALSE
    OBVIOUS
  <2> DEFINE numbers == 1 .. count + 1
             holder == [n \in numbers |-> CHOOSE r \in net : r.id = n]
  <2>1. \A n \in numbers : holder[n] \in net /\ holder[n].id = n
    OBVIOUS
  <2>2. holder \in [numbers -> net]
    OBVIOUS
  <2>3. IsFiniteSet(numbers) /\ Cardinality(numbers) = count + 1
    BY <1>1, FS_Interval
  <2> HIDE DEF holder, numbers
  <2>4. \E x, y \in numbers : x # y /\ holder[x] = holder[y]
    <3>1. Cardinality(net) < Cardinality(numbers)
      BY <1>1, <2>3
    <3> HIDE DEF count
    <3> QED
      BY <1>1, <2>2, <2>3, <3>1, FS_PigeonHole
  <2> QED
    BY <2>1, <2>4
<1>3. free \in SUBSET Nat
  BY <1>1
<1>4. Min(free) \in free
  <2> HIDE DEF free
  <2> QED
    BY <1>2, <1>3, LeastElement
<1> DEFINE id == Min(free)
<1> HIDE DEF id
<1>5. id \in Nat /\ id \notin ids
  BY <1>1, <1>4 DEF id
<1> QED
  BY <1>5 DEF id

\* Outside the verification only what is left to verify matters.
LEMMA VerifyFrame ==
  ASSUME TransportInv, check' = check, pc.done \subseteq pc'.done,
         pc'.at \notin Reading \union {"idle"}
  PROVE  VerifySound'
BY DEF TransportInv, VerifySound, Reading

\* A listing that begins has nothing listed and takes note of the bucket.
LEMMA NewListing ==
  ASSUME TransportInv, pc'.at = "list", list' = NewList, remote' = remote, used' = used
  PROVE  list' \in Listing /\ PoolOrdered' /\ ListIdle' /\ ObjectsOrdered' /\ ListSound'
<1>1. /\ list' = [NoList EXCEPT !.before = remote, !.foreign = used.foreign]
      /\ remote \in [Key -> Content] /\ used.foreign \in Nat
  BY DEF NewList, TransportInv, Typed
<1>2. list' \in Listing
  BY <1>1, EmptyListing DEF Listing
<1>3. /\ list'.page = <<>> /\ list'.jobs = <<>> /\ list'.busy = {} /\ list'.failed = FALSE
      /\ list'.next = 0 /\ list'.previous = 0 /\ list'.objects = <<>> /\ list'.seen = {}
      /\ list'.before = remote /\ list'.foreign = used.foreign
  BY <1>1 DEF NoList
<1>4. PoolOrdered' /\ ListIdle'
  BY <1>3 DEF PoolOrdered, ListIdle
<1>5. ObjectsOrdered'
  BY <1>3 DEF ObjectsOrdered
<1>6. ListSound'
  <2>1. \A k \in Key : k \in Nat /\ ~(k <= 0)
    BY PlanKeys
  <2> QED
    BY <1>1, <1>3, <2>1 DEF ListSound, Found, Steady
<1> QED
  BY <1>2, <1>4, <1>5, <1>6

\* The object is in place: on to the next one, or to the last listing.
LEMMA PutDoneStep ==
  ASSUME TransportInv, NEW k \in Plan, remote[k] = "new", pc.at \in {"head", "confirm", "written"},
         PutDone(k), UNCHANGED <<remote, uploads, net, cache, used>>
  PROVE  TransportInv'
<1>1. /\ pc' = Written(k) /\ pc \in Command /\ check' = check
      /\ list = NoList
  BY DEF PutDone, TransportInv, Typed, ListIdle
<1>2. /\ pc' \in Command /\ pc'.at = (IF pc.done \union {k} = Plan THEN "list" ELSE "head")
      /\ pc'.done = pc.done \union {k} /\ pc'.upload = 0
  BY <1>1 DEF Written, Command, At
<1>3. list' \in Listing /\ PoolOrdered' /\ ListIdle' /\ ObjectsOrdered' /\ ListSound'
  <2>1. CASE pc.done \union {k} = Plan
    BY <1>2, <2>1, NewListing DEF PutDone
  <2>2. CASE pc.done \union {k} # Plan
    <3>1. list' = NoList /\ pc'.at = "head"
      BY <1>1, <1>2, <2>2 DEF PutDone
    <3> QED
      BY <3>1, OutsideListing, EmptyListing
  <2> QED
    BY <2>1, <2>2
<1>4. Typed'
  BY <1>1, <1>2, <1>3 DEF TransportInv, Typed
<1>5. NetSound'
  BY <1>2 DEF TransportInv, NetSound, Putting
<1>6. UploadSound'
  <2>1. \A u \in 1 .. Len(uploads) : uploads[u].state # "open"
    BY NoneOpen DEF Putting
  <2>2. Len(uploads) \in Nat
    BY DEF TransportInv, Typed
  <2> QED
    BY <1>2, <2>1, <2>2 DEF UploadSound, Putting
<1>7. DoneServed'
  BY <1>2 DEF TransportInv, DoneServed
<1>8. VerifySound'
  <2>1. pc'.at \notin Reading \union {"idle"}
    BY <1>2 DEF Reading
  <2> QED
    BY <1>1, <1>2, <2>1, VerifyFrame
<1> QED
  BY <1>3, <1>4, <1>5, <1>6, <1>7, <1>8 DEF TransportInv

\* The command goes on with an object; of the rest only an upload changes.
LEMMA PutMoves ==
  ASSUME TransportInv, pc' \in Command, pc'.at \in Putting \ {"wait"}, pc'.key \in Plan,
         pc'.done = pc.done, pc.at \notin {"list", "pool"},
         list' = list, check' = check, remote' = remote, net' = net, cache' = cache,
         Fault \/ UNCHANGED used,
         uploads' \in Seq(Upload), Len(uploads) <= Len(uploads'), UploadSound'
  PROVE  TransportInv'
<1>1. /\ list = NoList
      /\ Len(uploads) \in Nat /\ Len(uploads') \in Nat /\ \A r \in net : r.upload \in Nat
  BY DEF TransportInv, Typed, ListIdle, Request
<1>2. used' \in Counts /\ used'.foreign = used.foreign
  BY FaultCounted DEF TransportInv
<1>3. pc'.at \notin {"list", "pool"} /\ pc'.at \notin Reading \union {"idle"} /\ pc'.at # "wait"
  BY DEF Putting, Reading
<1>4. Typed'
  BY <1>2 DEF TransportInv, Typed, Counts
<1>5. NetSound'
  <2>1. \A r \in net : r.upload <= Len(uploads')
    BY <1>1 DEF TransportInv, NetSound
  <2> QED
    BY <1>3, <2>1 DEF TransportInv, NetSound
<1>6. DoneServed'
  BY <1>2 DEF TransportInv, DoneServed
<1> QED
  BY <1>1, <1>3, <1>4, <1>5, <1>6, VerifyFrame, OutsideListing DEF TransportInv

\* The types of what the command knows.
LEMMA CommandTyped ==
  ASSUME TransportInv
  PROVE  /\ pc \in Command /\ pc.upload \in Nat /\ pc.attempt \in Nat /\ pc.done \subseteq Plan /\ pc.at \in At
         /\ uploads \in Seq(Upload) /\ Len(uploads) \in Nat
         /\ pc.at \in Putting => pc.key \in Plan /\ pc.key \in Key /\ pc.key \in Nat
BY PlanKeys DEF TransportInv, Typed, NetSound, Command

\* PutHead
LEMMA PutHeadStep ==
  ASSUME TransportInv, NEW k \in Plan, PutHead(k)
  PROVE  TransportInv'
<1>1. pc.at = "head" /\ UNCHANGED <<remote, uploads, net, cache, used>>
  BY DEF PutHead
<1>2. /\ k \in Nat /\ pc.upload = 0 /\ \A u \in 1 .. Len(uploads) : uploads[u].state # "open"
  BY <1>1, NoneOpen, PlanKeys DEF TransportInv, UploadSound, Putting
<1>3. CASE remote[k] = "new" /\ PutDone(k)
  BY <1>1, <1>3, PutDoneStep
<1>4. CASE /\ pc' = [pc EXCEPT !.at = IF k \in Large THEN "create" ELSE "send", !.key = k]
           /\ UNCHANGED <<list, check>>
  <2>1. /\ pc' \in Command /\ pc'.at \in {"create", "send"} /\ pc'.key = k /\ pc'.done = pc.done
        /\ pc'.upload = 0
    BY <1>2, <1>4, CommandTyped DEF Command, At
  <2>2. UploadSound'
    BY <1>1, <1>2, <2>1, CommandTyped DEF UploadSound, Putting
  <2> QED
    BY <1>1, <1>4, <2>1, <2>2, CommandTyped, PutMoves DEF Putting
<1>5. CASE Failed
  BY <1>1, <1>2, <1>5, FailedStep, FaultCounted, CommandTyped DEF TransportInv
<1> QED
  BY <1>3, <1>4, <1>5 DEF PutHead

\* CreateUpload, CreateUnanswered
LEMMA CreateStep ==
  ASSUME TransportInv, CreateUpload \/ CreateUnanswered
  PROVE  TransportInv'
<1>1. /\ pc.at = "create" /\ pc.at \in Putting /\ UNCHANGED <<remote, net, cache, list, check>>
      /\ Fault \/ UNCHANGED used
  BY DEF CreateUpload, CreateUnanswered, Putting
<1>2. /\ pc.upload = 0 /\ \A u \in 1 .. Len(uploads) : uploads[u].state # "open"
      /\ pc.key \in Key /\ pc.key \in Plan /\ uploads \in Seq(Upload) /\ pc \in Command
  BY <1>1, NoneOpen, CommandTyped DEF TransportInv, UploadSound, Putting
<1>3. CASE CreateUpload
  <2> DEFINE upload == [key |-> pc.key, state |-> "open"]
  <2>1. /\ upload \in Upload /\ uploads' = Append(uploads, upload) /\ upload.state = "open"
    BY <1>2, <1>3 DEF CreateUpload, Upload
  <2> HIDE DEF upload
  <2>2. /\ uploads' \in Seq(Upload) /\ Len(uploads') = Len(uploads) + 1
        /\ \A u \in 1 .. Len(uploads) : uploads'[u] = uploads[u]
        /\ Len(uploads) \in Nat
    BY <1>2, <2>1
  <2>3. /\ pc' \in Command /\ pc'.at = "parts" /\ pc'.upload = Len(uploads) + 1 /\ pc'.key = pc.key
        /\ pc'.done = pc.done
    <3>1. pc' = [pc EXCEPT !.at = "parts", !.upload = Len(uploads')] /\ Len(uploads') \in Nat
      BY <1>3, <2>2 DEF CreateUpload
    <3>2. /\ pc' \in Command /\ pc'.at = "parts" /\ pc'.upload = Len(uploads') /\ pc'.key = pc.key
          /\ pc'.done = pc.done
      BY <1>2, <3>1 DEF Command, At
    <3> QED
      BY <2>2, <3>2
  <2>4. UploadSound'
    BY <1>2, <2>2, <2>3 DEF UploadSound, Putting
  <2> QED
    BY <1>1, <1>2, <2>2, <2>3, <2>4, PutMoves DEF Putting
<1>4. CASE CreateUnanswered
  <2> DEFINE upload == [key |-> pc.key, state |-> "lost"]
  <2>1. /\ upload \in Upload /\ uploads' = Append(uploads, upload) /\ upload.state # "open"
    BY <1>2, <1>4 DEF CreateUnanswered, Upload
  <2> HIDE DEF upload
  <2>2. /\ uploads' \in Seq(Upload) /\ Len(uploads') = Len(uploads) + 1
        /\ \A u \in 1 .. Len(uploads') : uploads'[u].state # "open"
        /\ Len(uploads) \in Nat
    BY <1>2, <2>1
  <2>3. /\ pc' \in Command /\ pc'.at \in {"create", "confirm"} /\ pc'.upload = 0 /\ pc'.key = pc.key
        /\ pc'.done = pc.done
    BY <1>1, <1>2, <1>4 DEF CreateUnanswered, Command, At
  <2>4. UploadSound'
    BY <2>2, <2>3 DEF UploadSound, Putting
  <2> QED
    BY <1>1, <1>2, <2>2, <2>3, <2>4, PutMoves DEF Putting
<1> QED
  BY <1>3, <1>4

\* UploadParts, PartFails
LEMMA PartsStep ==
  ASSUME TransportInv, UploadParts \/ PartFails
  PROVE  TransportInv'
<1>1. /\ pc.at = "parts" /\ pc.at \in Putting /\ UNCHANGED <<remote, uploads, net, cache, list, check>>
      /\ Fault \/ UNCHANGED used
  BY DEF UploadParts, PartFails, Putting
<1>2. pc \in Command /\ pc.key \in Plan /\ pc.upload # 0
  BY <1>1, CommandTyped DEF TransportInv, UploadSound
<1>3. /\ pc' \in Command /\ pc'.at \in {"send", "abort"} /\ pc'.upload = pc.upload /\ pc'.key = pc.key
      /\ pc'.done = pc.done
  BY <1>2 DEF UploadParts, PartFails, Command, At
<1>4. UploadSound'
  BY <1>1, <1>2, <1>3 DEF TransportInv, UploadSound, Putting
<1> QED
  BY <1>1, <1>2, <1>3, <1>4, CommandTyped, PutMoves DEF Putting

\* Send
LEMMA SendStep ==
  ASSUME TransportInv, Send
  PROVE  TransportInv'
<1> DEFINE id == Min((1 .. Cardinality(net) + 1) \ {r.id : r \in net})
           request == [id |-> id, key |-> pc.key, upload |-> pc.upload, condition |-> PutCondition(pc.key)]
<1>1. /\ pc.at = "send" /\ pc.at \in Putting /\ UNCHANGED <<remote, uploads, cache, list, check, used>>
      /\ net' = net \union {request}
      /\ pc' = [pc EXCEPT !.at = "wait", !.request = id, !.attempt = pc.attempt + 1]
  BY DEF Send, Putting
<1>2. id \in Nat /\ \A r \in net : r.id # id
  BY FreshNumber DEF TransportInv
<1> HIDE DEF id
<1>3. /\ pc \in Command /\ pc.key \in Plan /\ pc.key \in Key /\ pc.upload \in Nat /\ pc.attempt \in Nat
      /\ pc.upload <= Len(uploads) /\ list = NoList
  BY <1>1, CommandTyped DEF TransportInv, UploadSound, ListIdle
<1>4. request \in Request /\ request.id = id /\ request.upload = pc.upload /\ request.key = pc.key
      /\ request.condition = Base(pc.key)
  BY <1>2, <1>3, PlanKeys DEF Request, PutCondition, Content
<1> HIDE DEF request
<1>5. /\ pc' \in Command /\ pc'.at = "wait" /\ pc'.upload = pc.upload /\ pc'.key = pc.key
      /\ pc'.done = pc.done /\ pc'.request = id
  <2>1. pc.attempt + 1 \in Nat
    BY <1>3
  <2> QED
    BY <1>1, <1>2, <1>3, <2>1 DEF Command, At
<1>6. Typed'
  <2>1. IsFiniteSet(net')
    BY <1>1, FS_AddElement DEF TransportInv, Typed
  <2> QED
    BY <1>1, <1>4, <1>5, <2>1 DEF TransportInv, Typed
<1>7. NetSound'
  BY <1>1, <1>2, <1>3, <1>4, <1>5 DEF TransportInv, NetSound
<1>8. UploadSound'
  BY <1>1, <1>5 DEF TransportInv, UploadSound, Putting
<1>9. DoneServed'
  BY <1>1, <1>5 DEF TransportInv, DoneServed
<1> QED
  BY <1>1, <1>3, <1>5, <1>6, <1>7, <1>8, <1>9, VerifyFrame, OutsideListing DEF TransportInv, Reading

\* TimeOut
LEMMA TimeOutStep ==
  ASSUME TransportInv, TimeOut
  PROVE  TransportInv'
<1>1. /\ pc.at = "wait" /\ pc.at \in Putting /\ UNCHANGED <<remote, uploads, net, cache, list, check>>
      /\ Fault \/ UNCHANGED used
  BY DEF TimeOut, Putting
<1>2. pc \in Command /\ pc.key \in Plan
  BY <1>1, CommandTyped
<1>3. /\ pc' \in Command /\ pc'.upload = pc.upload /\ pc'.key = pc.key /\ pc'.done = pc.done
      /\ \/ pc'.at = "send"
         \/ pc'.at = "confirm" /\ pc.upload = 0
         \/ pc'.at = "abort" /\ pc.upload # 0
  BY <1>2 DEF TimeOut, AfterPutError, Command, At
<1>4. UploadSound'
  BY <1>1, <1>3 DEF TransportInv, UploadSound, Putting
<1> QED
  BY <1>1, <1>2, <1>3, <1>4, CommandTyped, PutMoves DEF Putting

\* AbortMultipart, AbortFails
LEMMA AbortStep ==
  ASSUME TransportInv, AbortMultipart \/ AbortFails
  PROVE  TransportInv'
<1>1. /\ pc.at = "abort" /\ pc.at \in Putting /\ UNCHANGED <<remote, net, cache, list, check>>
      /\ Fault \/ UNCHANGED used
  BY DEF AbortMultipart, AbortFails, Putting
<1>2. /\ pc \in Command /\ pc.key \in Plan /\ pc.upload \in 1 .. Len(uploads)
      /\ uploads \in Seq(Upload) /\ Len(uploads) \in Nat
  BY <1>1, CommandTyped DEF TransportInv, UploadSound
<1>3. /\ pc' \in Command /\ pc'.at = "confirm" /\ pc'.upload = pc.upload /\ pc'.key = pc.key
      /\ pc'.done = pc.done
  BY <1>2 DEF AbortMultipart, AbortFails, Command, At
<1>4. PICK after \in {"aborted", "lost"} :
        uploads' = [uploads EXCEPT ![pc.upload].state = IF @ = "open" THEN after ELSE @]
  BY DEF AbortMultipart, AbortFails
<1>5. /\ uploads' \in Seq(Upload) /\ Len(uploads') = Len(uploads)
      /\ \A u \in 1 .. Len(uploads) : u # pc.upload => uploads'[u] = uploads[u]
      /\ uploads'[pc.upload].state # "open"
  <2>1. uploads[pc.upload] \in Upload
    BY <1>2
  <2>2. uploads'[pc.upload] = [uploads[pc.upload] EXCEPT !.state = IF @ = "open" THEN after ELSE @]
    BY <1>2, <1>4
  <2>3. uploads'[pc.upload] \in Upload /\ uploads'[pc.upload].state # "open"
    BY <2>1, <2>2 DEF Upload
  <2> QED
    BY <1>2, <1>4, <2>3
<1>6. UploadSound'
  BY <1>1, <1>2, <1>3, <1>5 DEF TransportInv, UploadSound, Putting
<1> QED
  BY <1>1, <1>2, <1>3, <1>5, <1>6, PutMoves DEF Putting

\* PutConfirm, HeadFails
LEMMA ConfirmStep ==
  ASSUME TransportInv, PutConfirm \/ HeadFails
  PROVE  TransportInv'
<1>1. /\ pc.at \in {"head", "confirm", "written"} /\ UNCHANGED <<remote, uploads, net, cache>>
      /\ Fault \/ UNCHANGED used
  BY DEF PutConfirm, HeadFails
<1>2. CASE Failed
  <2>1. \A u \in 1 .. Len(uploads) : uploads[u].state # "open"
    BY <1>1, NoneOpen DEF Putting
  <2> QED
    BY <1>1, <1>2, <2>1, FailedStep, FaultCounted, CommandTyped DEF TransportInv
<1>3. CASE PutConfirm /\ ~Failed
  <2>1. pc.at \in Putting /\ remote[pc.key] = "new" /\ PutDone(pc.key) /\ UNCHANGED used
    BY <1>3 DEF PutConfirm, Putting
  <2> QED
    BY <1>1, <2>1, CommandTyped, PutDoneStep
<1> QED
  BY <1>2, <1>3 DEF HeadFails

-----------------------------------------------------------------------------
(* The bucket carries out requests *)

\* An object becomes new only from what the plan expected of it.
OnlyExpected ==
  \A k \in Key : \/ remote'[k] = remote[k]
                 \/ remote[k] # "new" /\ remote'[k] = "new" /\ k \in Plan /\ remote[k] = Base(k)

\* What a listing has found stays so or becomes new.
LEMMA WrittenWhileListing ==
  ASSUME TransportInv, list' = list, pc'.at = pc.at, used'.foreign = used.foreign, OnlyExpected
  PROVE  ListSound'
<1> SUFFICES ASSUME pc.at \in {"list", "pool"}
             PROVE  ListSound'
  BY DEF ListSound
<1>1. list.foreign <= used.foreign /\ list.before \in [Key -> Content] /\ list \in Listing
  BY DEF TransportInv, ListSound, Typed
<1> SUFFICES ASSUME list.foreign = used.foreign
             PROVE  ListSound'
  BY <1>1 DEF ListSound
<1>2. /\ \A k \in Key : remote[k] \in {list.before[k], "new"}
      /\ \A n \in 1 .. Len(list.objects) : Found(list.objects[n])
      /\ \A n \in 1 .. Len(list.page) : Found(list.page[n])
      /\ \A k \in Key : Steady(k) /\ k <= list.previous =>
           \E n \in 1 .. Len(list.objects) : list.objects[n].key = k
      /\ pc.at = "pool" => PageGoesOn
  BY DEF TransportInv, ListSound
<1>3. \A k \in Key : remote'[k] \in {list.before[k], "new"}
  BY <1>2 DEF OnlyExpected
<1>4. ASSUME NEW e \in Listed, Found(e)  PROVE Found(e)'
  <2>1. e.key \in Key
    BY DEF Listed
  <2>2. CASE remote'[e.key] = remote[e.key]
    BY <1>4, <2>2 DEF Found
  <2>3. CASE remote[e.key] # "new" /\ remote'[e.key] = "new"
    BY <1>2, <1>4, <2>1, <2>3 DEF Found
  <2> QED
    BY <2>1, <2>2, <2>3 DEF OnlyExpected
<1>5. \A k \in Key : Steady(k)' => Steady(k)
  BY <1>2 DEF OnlyExpected, Steady
<1>6. /\ \A n \in 1 .. Len(list.objects) : list.objects[n] \in Listed
      /\ \A n \in 1 .. Len(list.page) : list.page[n] \in Listed
  BY <1>1 DEF Listing
<1>7. /\ \A n \in 1 .. Len(list.objects) : Found(list.objects[n])'
      /\ \A n \in 1 .. Len(list.page) : Found(list.page[n])'
  BY <1>2, <1>4, <1>6
<1>8. pc.at = "pool" => PageGoesOn'
  BY <1>2, <1>5 DEF PageGoesOn
<1> QED
  BY <1>1, <1>2, <1>3, <1>5, <1>7, <1>8 DEF ListSound

\* What the bucket does with a request, whether or not it is answered.
LEMMA CarriedOut ==
  ASSUME TransportInv, NEW r \in net,
         CarryOut(r) \/ (net' = net \ {r} /\ UNCHANGED <<remote, uploads>>)
  PROVE  /\ remote' \in [Key -> Content] /\ OnlyExpected
         /\ net' \in SUBSET net /\ IsFiniteSet(net')
         /\ uploads' \in Seq(Upload) /\ Len(uploads') = Len(uploads)
         /\ \A u \in 1 .. Len(uploads) : uploads'[u] = uploads[u] \/ uploads'[u].state = "completed"
         /\ CarryOut(r) /\ Applies(r) /\ r.upload # 0 => uploads'[r.upload].state = "completed"
<1>1. /\ r \in Request /\ r.key \in Plan /\ r.key \in Key /\ r.upload \in Nat /\ r.upload <= Len(uploads)
      /\ r.condition = Base(r.key) /\ r.condition \in {"old", "none"}
      /\ remote \in [Key -> Content] /\ uploads \in Seq(Upload) /\ Len(uploads) \in Nat
  <2>1. r \in Request
    BY DEF TransportInv, Typed
  <2>2. r.key \in Plan /\ r.upload \in Nat
    BY <2>1 DEF Request
  <2>3. r.condition = Base(r.key) /\ r.upload <= Len(uploads)
    BY DEF TransportInv, NetSound
  <2>4. remote \in [Key -> Content]
    BY DEF TransportInv, Typed
  <2>5. r.key \in Key /\ r.condition \in {"old", "none"}
    BY <2>2, <2>3, PlanKeys
  <2> QED
    BY <2>1, <2>2, <2>3, <2>4, <2>5, CommandTyped
<1>2. net' \in SUBSET net /\ IsFiniteSet(net')
  BY FS_RemoveElement DEF TransportInv, Typed, CarryOut
<1>3. remote' \in [Key -> Content] /\ OnlyExpected
  BY <1>1 DEF CarryOut, Applies, OnlyExpected, Content
<1>4. /\ uploads' \in Seq(Upload) /\ Len(uploads') = Len(uploads)
      /\ \A u \in 1 .. Len(uploads) : uploads'[u] = uploads[u] \/ uploads'[u].state = "completed"
      /\ CarryOut(r) /\ Applies(r) /\ r.upload # 0 => uploads'[r.upload].state = "completed"
  <2>1. CASE CarryOut(r) /\ Applies(r) /\ r.upload # 0
    <3>1. uploads' = [uploads EXCEPT ![r.upload].state = "completed"] /\ r.upload \in 1 .. Len(uploads)
      BY <1>1, <2>1 DEF CarryOut
    <3>2. uploads[r.upload] \in Upload
      BY <1>1, <3>1
    <3>3. uploads'[r.upload] = [uploads[r.upload] EXCEPT !.state = "completed"]
      BY <1>1, <3>1
    <3>4. uploads'[r.upload] \in Upload /\ uploads'[r.upload].state = "completed"
      BY <3>2, <3>3 DEF Upload
    <3> QED
      BY <1>1, <3>1, <3>4
  <2>2. CASE ~(CarryOut(r) /\ Applies(r) /\ r.upload # 0)
    <3>1. uploads' = uploads
      BY <2>2 DEF CarryOut
    <3> QED
      BY <1>1, <2>2, <3>1
  <2> QED
    BY <2>1, <2>2
<1> QED
  BY <1>2, <1>3, <1>4

\* CarriedOutLate, Lost
LEMMA LateStep ==
  ASSUME TransportInv, NEW r \in net, CarriedOutLate(r) \/ Lost(r)
  PROVE  TransportInv'
<1>1. /\ CarryOut(r) \/ (net' = net \ {r} /\ UNCHANGED <<remote, uploads>>)
      /\ UNCHANGED <<cache, pc, list, check>>
      /\ Fault \/ UNCHANGED used
  BY DEF CarriedOutLate, Lost
<1>2. used' \in Counts /\ used'.foreign = used.foreign
  BY <1>1, FaultCounted DEF TransportInv
<1>3. /\ remote' \in [Key -> Content] /\ OnlyExpected
      /\ net' \in SUBSET net /\ IsFiniteSet(net')
      /\ uploads' \in Seq(Upload) /\ Len(uploads') = Len(uploads)
      /\ \A u \in 1 .. Len(uploads) : uploads'[u] = uploads[u] \/ uploads'[u].state = "completed"
  BY <1>1, CarriedOut
<1>4. Typed'
  BY <1>1, <1>2, <1>3 DEF TransportInv, Typed, Counts
<1>5. NetSound'
  BY <1>1, <1>3 DEF TransportInv, NetSound
<1>6. UploadSound'
  <2>1. pc.upload # 0 => pc.upload \in 1 .. Len(uploads)
    BY CommandTyped DEF TransportInv, UploadSound
  <2> QED
    BY <1>1, <1>3, <2>1 DEF TransportInv, UploadSound
<1>7. DoneServed'
  BY <1>1, <1>2, <1>3, CommandTyped, PlanKeys DEF TransportInv, DoneServed, OnlyExpected
<1>8. VerifySound'
  BY <1>1, <1>2 DEF TransportInv, VerifySound
<1>9. PoolOrdered' /\ ListIdle' /\ ObjectsOrdered'
  BY <1>1 DEF TransportInv, PoolOrdered, ListIdle, ObjectsOrdered, Taken, Sent, Begun, Stored, PoolSize,
              Previous
<1> QED
  BY <1>1, <1>2, <1>3, <1>4, <1>5, <1>6, <1>7, <1>8, <1>9, WrittenWhileListing DEF TransportInv

\* Answered
LEMMA AnsweredStep ==
  ASSUME TransportInv, NEW r \in net, Answered(r)
  PROVE  TransportInv'
<1>1. /\ pc.at = "wait" /\ pc.at \in Putting /\ r.id = pc.request /\ CarryOut(r)
      /\ pc' = [pc EXCEPT !.at = IF Applies(r) THEN "written" ELSE AfterPutError]
      /\ UNCHANGED <<cache, list, check, used>>
  BY DEF Answered, Putting
<1>2. /\ remote' \in [Key -> Content] /\ OnlyExpected
      /\ net' \in SUBSET net /\ IsFiniteSet(net')
      /\ uploads' \in Seq(Upload) /\ Len(uploads') = Len(uploads)
      /\ \A u \in 1 .. Len(uploads) : uploads'[u] = uploads[u] \/ uploads'[u].state = "completed"
      /\ Applies(r) /\ r.upload # 0 => uploads'[r.upload].state = "completed"
  BY <1>1, CarriedOut
<1>3. /\ pc \in Command /\ pc.key \in Plan /\ r.upload = pc.upload /\ list = NoList
      /\ pc.upload \in Nat /\ pc.upload <= Len(uploads) /\ Len(uploads) \in Nat
  BY <1>1, CommandTyped DEF TransportInv, NetSound, UploadSound, ListIdle
<1>4. /\ pc' \in Command /\ pc'.upload = pc.upload /\ pc'.key = pc.key /\ pc'.done = pc.done
      /\ \/ pc'.at = "written" /\ Applies(r)
         \/ pc'.at = "confirm" /\ pc.upload = 0
         \/ pc'.at = "abort" /\ pc.upload # 0
  BY <1>1, <1>3 DEF AfterPutError, Command, At
<1>5. Typed'
  BY <1>1, <1>2, <1>4 DEF TransportInv, Typed
<1>6. NetSound'
  BY <1>1, <1>2, <1>3, <1>4 DEF TransportInv, NetSound
<1>7. UploadSound'
  BY <1>1, <1>2, <1>3, <1>4 DEF TransportInv, UploadSound, Putting
<1>8. DoneServed'
  BY <1>1, <1>2, <1>4, CommandTyped, PlanKeys DEF TransportInv, DoneServed, OnlyExpected
<1> QED
  BY <1>1, <1>3, <1>4, <1>5, <1>6, <1>7, <1>8, VerifyFrame, OutsideListing DEF TransportInv, Reading

-----------------------------------------------------------------------------
(* The verification *)

Copy == [content : Content, left : 0 .. MaxCacheTTL]

\* The command goes on with the verification.
LEMMA ReadMoves ==
  ASSUME TransportInv, pc.at \in Reading \union {"verify"},
         NEW at \in Reading \union {"verify", "published"}, pc' = [pc EXCEPT !.at = at],
         UNCHANGED <<remote, uploads, net, list>>, Fault \/ UNCHANGED used,
         cache' \in [Key -> Copy], check' \in Verification, VerifySound'
  PROVE  TransportInv'
<1>1. /\ pc \in Command /\ list = NoList /\ pc.upload = 0
      /\ \A u \in 1 .. Len(uploads) : uploads[u].state # "open"
  BY NoneOpen, CommandTyped DEF TransportInv, ListIdle, UploadSound, Reading, Putting
<1>2. pc' \in Command /\ pc'.at = at /\ pc'.upload = pc.upload /\ pc'.key = pc.key /\ pc'.done = pc.done
  BY <1>1 DEF Command, At, Reading
<1>3. pc'.at \notin Putting /\ pc'.at \notin {"list", "pool"}
  BY <1>2 DEF Putting, Reading
<1>4. used' \in Counts /\ used'.foreign = used.foreign
  BY FaultCounted DEF TransportInv
<1>5. Typed'
  BY <1>2, <1>4 DEF TransportInv, Typed, Counts, Copy
<1>6. NetSound'
  BY <1>3 DEF TransportInv, NetSound, Putting
<1>7. UploadSound'
  BY <1>1, <1>2, <1>3, CommandTyped DEF UploadSound, Putting
<1>8. DoneServed'
  BY <1>2, <1>4 DEF TransportInv, DoneServed
<1> QED
  BY <1>1, <1>3, <1>5, <1>6, <1>7, <1>8, OutsideListing DEF TransportInv

\* The types of what the verification knows, and what it reads is in place.
LEMMA VerifyTyped ==
  ASSUME TransportInv
  PROVE  /\ check \in Verification /\ check.todo \subseteq Plan /\ check.todo \subseteq pc.done
         /\ check.stale \in Nat /\ check.transient \in Nat /\ check.backoff \in 0 .. MaxBackoff
         /\ check.slow \in BOOLEAN /\ remote \in [Key -> Content]
         /\ cache \in [Key -> Copy] /\ \A k \in Key : cache[k].left \in 0 .. MaxCacheTTL
         /\ MaxCacheTTL \in Nat /\ MaxBackoff \in Nat \ {0} /\ Window \in Nat
         /\ pc.at \in Reading => check.key \in check.todo /\ check.key \in Key
         /\ used.foreign = 0 => \A k \in check.todo : remote[k] = "new"
<1>1. check \in Verification /\ cache \in [Key -> Copy] /\ remote \in [Key -> Content]
  BY DEF TransportInv, Typed, Copy
<1>2. check.todo \subseteq pc.done /\ (pc.at \in Reading => check.key \in check.todo)
  BY DEF TransportInv, VerifySound
<1>3. used.foreign = 0 => \A k \in pc.done : remote[k] = "new"
  BY DEF TransportInv, DoneServed
<1> QED
  BY <1>1, <1>2, <1>3, PlanKeys, CommandTyped, TransportAssumption DEF Verification, Copy

\* A read through the cache leaves a copy there, unless it found one.
LEMMA CachedCopy ==
  ASSUME TransportInv, NEW k \in Key
  PROVE  /\ Cached(k) \in [Key -> Copy]
         /\ \A j \in Key : \/ Cached(k)[j] = cache[j]
                           \/ Cached(k)[j] = [content |-> remote[j], left |-> MaxCacheTTL]
         /\ cache[k].left > 0 => Cached(k)[k] = cache[k]
<1>1. [content |-> remote[k], left |-> MaxCacheTTL] \in Copy
  BY VerifyTyped DEF Copy
<1> QED
  BY <1>1, VerifyTyped DEF Cached

\* VerifyPublic
LEMMA VerifyPublicStep ==
  ASSUME TransportInv, NEW k \in check.todo, VerifyPublic(k)
  PROVE  TransportInv'
<1>1. /\ pc.at = "verify" /\ pc' = [pc EXCEPT !.at = "get"]
      /\ check' = [check EXCEPT !.key = k, !.stale = MaxCacheTTL, !.transient = Window, !.backoff = 1,
                                !.slow = FALSE]
      /\ UNCHANGED <<remote, uploads, net, cache, list, used>>
  BY DEF VerifyPublic, StaleDeadline
<1>2. k \in Plan /\ k \in Key /\ k \in Nat
  BY VerifyTyped, PlanKeys
<1>3. /\ check' \in Verification /\ check'.key = k /\ check'.todo = check.todo
      /\ check'.stale = MaxCacheTTL
  <2>1. 1 \in 0 .. MaxBackoff
    BY VerifyTyped
  <2> QED
    BY <1>1, <1>2, <2>1, VerifyTyped DEF Verification
<1>4. pc'.at = "get" /\ pc'.done = pc.done
  BY <1>1, CommandTyped DEF Command
<1>5. VerifySound'
  <2>1. cache[k].left <= MaxCacheTTL
    BY <1>2, VerifyTyped
  <2> QED
    BY <1>1, <1>3, <1>4, <2>1, VerifyTyped DEF VerifySound
<1> QED
  BY <1>1, <1>3, <1>5, VerifyTyped, ReadMoves DEF Reading

\* GetPublic
LEMMA GetPublicStep ==
  ASSUME TransportInv, GetPublic
  PROVE  TransportInv'
<1> DEFINE exact == Served(check.key) = "new"
           left == check.todo \ {check.key}
<1>1. /\ pc.at = "get" /\ pc.at \in Reading /\ cache' = Cached(check.key)
      /\ UNCHANGED <<remote, uploads, net, list, used>>
      /\ check' = IF exact THEN [NoCheck EXCEPT !.todo = left] ELSE check
      /\ \/ exact /\ pc' = [pc EXCEPT !.at = "verify"]
         \/ exact /\ pc' = [pc EXCEPT !.at = "published"]
         \/ ~exact /\ pc' = [pc EXCEPT !.at = "stale"]
  BY DEF GetPublic, Reading
<1>2. /\ check.key \in Key /\ check.key \in check.todo
      /\ cache' \in [Key -> Copy]
      /\ cache[check.key].left > 0 => cache'[check.key] = cache[check.key]
  BY <1>1, VerifyTyped, CachedCopy
<1>3. CASE exact
  <2>1. /\ check' \in Verification /\ check'.todo \subseteq pc.done
    BY <1>1, <1>3, VerifyTyped, EmptyListing DEF Verification, NoCheck
  <2>2. pc'.at \in {"verify", "published"} /\ pc'.done = pc.done
    BY <1>1, <1>3, CommandTyped DEF Command
  <2>3. VerifySound'
    BY <2>1, <2>2 DEF VerifySound, Reading
  <2> QED
    BY <1>1, <1>2, <1>3, <2>1, <2>3, ReadMoves
<1>4. CASE ~exact
  <2>1. pc'.at = "stale" /\ pc'.done = pc.done /\ check' = check
    BY <1>1, <1>4, CommandTyped DEF Command
  <2>2. used.foreign = 0 => /\ cache'[check.key] = cache[check.key] /\ check.stale > 0
                            /\ cache[check.key].left <= check.stale
    <3> SUFFICES ASSUME used.foreign = 0
                 PROVE  /\ cache'[check.key] = cache[check.key] /\ check.stale > 0
                        /\ cache[check.key].left <= check.stale
      OBVIOUS
    <3>1. remote[check.key] = "new"
      BY <1>2, VerifyTyped
    <3>2. cache[check.key].left > 0 /\ cache[check.key].content # "new"
      BY <1>4, <3>1 DEF Served
    <3>3. cache[check.key].left <= check.stale
      BY <1>1, <3>2 DEF TransportInv, VerifySound
    <3> QED
      BY <1>2, <3>2, <3>3, VerifyTyped
  <2>3. VerifySound'
    BY <1>1, <1>2, <2>1, <2>2, VerifyTyped DEF VerifySound
  <2> QED
    BY <1>1, <1>2, <1>4, <2>1, <2>3, VerifyTyped, ReadMoves DEF Reading
<1> QED
  BY <1>3, <1>4

\* GetFails, Wake, Pause
LEMMA WaitStep ==
  ASSUME TransportInv, GetFails \/ Pause \/ Wake
  PROVE  TransportInv'
<1>1. PICK at \in {"transient", "sleep", "get"} : pc' = [pc EXCEPT !.at = at]
  BY DEF GetFails, Pause, Wake
<1>2. /\ pc.at \in Reading
      /\ UNCHANGED <<remote, uploads, net, cache, list>>
      /\ Fault \/ UNCHANGED used
  BY DEF GetFails, Pause, Wake, Reading
<1>3. /\ check' \in Verification /\ check'.todo = check.todo /\ check'.key = check.key
      /\ check'.stale = check.stale
  <2>1. CASE check' = check
    BY <2>1, VerifyTyped
  <2>2. CASE Pause
    <3> DEFINE sleep == IF check.backoff < Deadline THEN check.backoff ELSE Deadline
               backoff == IF 2 * check.backoff < MaxBackoff THEN 2 * check.backoff ELSE MaxBackoff
    <3>1. Deadline \in Nat
      BY VerifyTyped DEF Deadline
    <3>2. sleep \in 0 .. MaxBackoff /\ backoff \in 0 .. MaxBackoff
      BY <3>1, VerifyTyped
    <3>3. check' = [check EXCEPT !.sleep = sleep, !.backoff = backoff]
      BY <2>2 DEF Pause
    <3> HIDE DEF sleep, backoff
    <3> QED
      BY <3>2, <3>3, VerifyTyped DEF Verification
  <2> QED
    BY <2>1, <2>2 DEF GetFails, Wake
<1>4. pc'.at \in {"transient", "sleep", "get"} /\ pc'.done = pc.done
  BY <1>1, CommandTyped DEF Command
<1>5. VerifySound'
  <2>1. used'.foreign = used.foreign
    BY <1>2, FaultCounted DEF TransportInv
  <2> QED
    BY <1>2, <1>3, <1>4, <2>1, VerifyTyped DEF TransportInv, VerifySound
<1> QED
  BY <1>1, <1>2, <1>3, <1>5, VerifyTyped, ReadMoves DEF Reading

\* Probe
LEMMA ProbeStep ==
  ASSUME TransportInv, Probe
  PROVE  TransportInv'
<1>1. /\ pc.at = "stale" /\ pc.at \in Reading /\ pc' = [pc EXCEPT !.at = "probed"]
      /\ UNCHANGED <<remote, uploads, net, list, check, used>>
      /\ \/ cache' = [cache EXCEPT ![check.key] = [content |-> remote[check.key], left |-> MaxCacheTTL]]
         \/ UNCHANGED cache
  BY DEF Probe, Reading
<1>2. check.key \in Key /\ check.key \in check.todo
  BY <1>1, VerifyTyped
<1>3. [content |-> remote[check.key], left |-> MaxCacheTTL] \in Copy
  BY <1>2, VerifyTyped DEF Copy
<1>4. /\ cache' \in [Key -> Copy]
      /\ \/ cache'[check.key] = cache[check.key]
         \/ cache'[check.key].content = remote[check.key]
  BY <1>1, <1>2, <1>3, VerifyTyped
<1>5. pc'.at = "probed" /\ pc'.done = pc.done
  BY <1>1, CommandTyped DEF Command
<1>6. VerifySound'
  BY <1>1, <1>2, <1>4, <1>5, VerifyTyped DEF TransportInv, VerifySound
<1> QED
  BY <1>1, <1>4, <1>6, VerifyTyped, ReadMoves DEF Reading

-----------------------------------------------------------------------------
(* The surroundings *)

\* Time and clients change the cache, and the time there is for it.
LEMMA CacheChanges ==
  ASSUME TransportInv, UNCHANGED <<remote, uploads, net, pc, list, used>>,
         cache' \in [Key -> Copy], check' \in Verification, VerifySound'
  PROVE  TransportInv'
<1>1. Typed'
  BY DEF TransportInv, Typed, Copy
<1>2. NetSound' /\ UploadSound' /\ DoneServed'
  BY DEF TransportInv, NetSound, UploadSound, DoneServed
<1>3. PoolOrdered' /\ ListIdle' /\ ObjectsOrdered'
  BY DEF TransportInv, PoolOrdered, ListIdle, ObjectsOrdered, Taken, Sent, Begun, Stored, PoolSize, Previous
<1>4. ListSound'
  BY WrittenWhileListing DEF OnlyExpected
<1> QED
  BY <1>1, <1>2, <1>3, <1>4 DEF TransportInv

\* Tick
LEMMA TickStep ==
  ASSUME TransportInv, Tick
  PROVE  TransportInv'
<1>1. /\ cache' = [k \in Key |-> IF cache[k].left > 1 THEN [cache[k] EXCEPT !.left = @ - 1]
                                 ELSE [content |-> "none", left |-> 0]]
      /\ check' = [check EXCEPT !.stale = Less(check.stale), !.transient = Less(check.transient),
                                !.sleep = Less(check.sleep),
                                !.slow = check.slow \/ pc.at \in {"stale", "transient", "probed"}]
      /\ UNCHANGED <<remote, uploads, net, pc, list, used>>
  BY DEF Tick
<1>2. \A k \in Key : /\ cache'[k] \in Copy
                     /\ \/ cache'[k].left = cache[k].left - 1 /\ cache[k].left > 0
                           /\ cache'[k].content = cache[k].content
                        \/ cache'[k].left = 0
  <2> SUFFICES ASSUME NEW k \in Key
               PROVE  /\ cache'[k] \in Copy
                      /\ \/ cache'[k].left = cache[k].left - 1 /\ cache[k].left > 0
                            /\ cache'[k].content = cache[k].content
                         \/ cache'[k].left = 0
    OBVIOUS
  <2>1. cache[k] \in Copy /\ cache[k].left \in 0 .. MaxCacheTTL /\ MaxCacheTTL \in Nat
    BY VerifyTyped
  <2>2. CASE cache[k].left > 1
    <3>1. cache'[k] = [cache[k] EXCEPT !.left = cache[k].left - 1] /\ cache[k].left - 1 \in 0 .. MaxCacheTTL
      BY <1>1, <2>1, <2>2
    <3> QED
      BY <2>1, <2>2, <3>1 DEF Copy
  <2>3. CASE ~(cache[k].left > 1)
    BY <1>1, <2>1, <2>3 DEF Copy, Content
  <2> QED
    BY <2>2, <2>3
<1>3. cache' \in [Key -> Copy]
  BY <1>1, <1>2
<1>4. /\ check' \in Verification /\ check'.todo = check.todo /\ check'.key = check.key
      /\ check'.stale = Less(check.stale) /\ check'.stale \in Nat
      /\ pc.at \in {"stale", "transient", "probed"} => check'.slow
  <2>1. /\ check.stale \in Nat /\ check.transient \in Nat /\ check.sleep \in 0 .. MaxBackoff
        /\ MaxBackoff \in Nat /\ check \in Verification
    BY VerifyTyped DEF Verification
  <2>2. /\ Less(check.stale) \in Nat /\ Less(check.transient) \in Nat /\ Less(check.sleep) \in 0 .. MaxBackoff
    BY <2>1 DEF Less
  <2>3. (check.slow \/ pc.at \in {"stale", "transient", "probed"}) \in BOOLEAN
    OBVIOUS
  <2> HIDE DEF Less
  <2> QED
    BY <1>1, <2>1, <2>2, <2>3 DEF Verification
<1>5. VerifySound'
  <2>1. ASSUME used.foreign = 0, pc.at \in Reading
        PROVE  cache'[check.key].content = "new" \/ cache'[check.key].left <= Less(check.stale)
    <3>1. /\ check.key \in Key /\ check.stale \in Nat /\ cache[check.key].left \in Nat
          /\ cache[check.key].content = "new" \/ cache[check.key].left <= check.stale
      BY <2>1, VerifyTyped DEF TransportInv, VerifySound
    <3> QED
      BY <1>2, <3>1 DEF Less
  <2>2. pc.at = "idle" => check.todo = {}
    BY DEF TransportInv, VerifySound
  <2> QED
    BY <1>1, <1>4, <2>1, <2>2, VerifyTyped DEF VerifySound
<1> QED
  BY <1>1, <1>3, <1>4, <1>5, CacheChanges

\* Read
LEMMA ReadStep ==
  ASSUME TransportInv, NEW k \in Watched, Read(k)
  PROVE  TransportInv'
<1>1. /\ cache' = Cached(k) /\ k \in Key
      /\ UNCHANGED <<remote, uploads, net, pc, list, check, used>>
  BY TransportAssumption DEF Read
<1>2. /\ cache' \in [Key -> Copy]
      /\ \A j \in Key : cache'[j] = cache[j] \/ cache'[j].content = remote[j]
  <2>1. \A j \in Key : [content |-> remote[j], left |-> MaxCacheTTL].content = remote[j]
    OBVIOUS
  <2> QED
    BY <1>1, <2>1, CachedCopy
<1>3. VerifySound'
  BY <1>1, <1>2, VerifyTyped DEF TransportInv, VerifySound
<1> QED
  BY <1>1, <1>2, <1>3, VerifyTyped, CacheChanges

\* ForeignWrite
LEMMA ForeignWriteStep ==
  ASSUME TransportInv, NEW k \in Key, NEW c \in {"none", "other"}, ForeignWrite(k, c)
  PROVE  TransportInv'
<1>1. /\ remote' = [remote EXCEPT ![k] = c]
      /\ used' = [used EXCEPT !.foreign = used.foreign + 1]
      /\ UNCHANGED <<uploads, net, cache, pc, list, check>>
  BY DEF ForeignWrite
<1>2. used' \in Counts /\ used'.foreign = used.foreign + 1 /\ used.foreign \in Nat /\ used'.foreign # 0
  <2>1. used \in Counts
    BY DEF TransportInv, Typed, Counts
  <2>2. used.foreign \in Nat /\ used.foreign + 1 \in Nat
    BY <2>1 DEF Counts
  <2> QED
    BY <1>1, <2>1, <2>2 DEF Counts
<1>3. Typed'
  BY <1>1, <1>2 DEF TransportInv, Typed, Counts, Content
<1>4. NetSound' /\ UploadSound'
  BY <1>1 DEF TransportInv, NetSound, UploadSound
<1>5. DoneServed' /\ VerifySound'
  BY <1>1, <1>2 DEF TransportInv, DoneServed, VerifySound
<1>6. PoolOrdered' /\ ListIdle' /\ ObjectsOrdered'
  BY <1>1 DEF TransportInv, PoolOrdered, ListIdle, ObjectsOrdered, Taken, Sent, Begun, Stored, PoolSize,
              Previous
<1>7. ListSound'
  <2>1. pc.at \in {"list", "pool"} =>
          list.foreign <= used.foreign /\ list.foreign \in Nat /\ list.before \in [Key -> Content]
    BY DEF TransportInv, Typed, Listing, ListSound
  <2> QED
    BY <1>1, <1>2, <2>1 DEF ListSound
<1> QED
  BY <1>3, <1>4, <1>5, <1>6, <1>7 DEF TransportInv

\* Stop
LEMMA StopStep ==
  ASSUME TransportInv, Stop
  PROVE  TransportInv'
<1>1. /\ uploads' = [u \in DOMAIN uploads |->
                       IF uploads[u].state = "open" THEN [uploads[u] EXCEPT !.state = "lost"] ELSE uploads[u]]
      /\ used' = [used EXCEPT !.stops = used.stops + 1]
      /\ Failed /\ UNCHANGED <<remote, net, cache>>
  BY DEF Stop
<1>2. used' \in Counts
  <2>1. used \in Counts /\ used.stops + 1 \in Nat
    BY DEF TransportInv, Typed, Counts
  <2> QED
    BY <1>1, <2>1 DEF Counts
<1>3. /\ uploads' \in Seq(Upload) /\ Len(uploads') = Len(uploads)
      /\ \A u \in 1 .. Len(uploads') : uploads'[u].state # "open"
  <2>1. uploads \in Seq(Upload) /\ Len(uploads) \in Nat /\ DOMAIN uploads = 1 .. Len(uploads)
    BY CommandTyped
  <2>2. \A u \in 1 .. Len(uploads) : uploads'[u] \in Upload /\ uploads'[u].state # "open"
    <3> SUFFICES ASSUME NEW u \in 1 .. Len(uploads)
                 PROVE  uploads'[u] \in Upload /\ uploads'[u].state # "open"
      OBVIOUS
    <3>1. uploads[u] \in Upload
      BY <2>1
    <3> QED
      BY <1>1, <2>1, <3>1 DEF Upload
  <2>3. uploads' = [u \in 1 .. Len(uploads) |-> uploads'[u]]
    BY <1>1, <2>1
  <2> QED
    BY <2>1, <2>2, <2>3
<1> QED
  BY <1>1, <1>2, <1>3, FailedStep

\* ListFails, Refuse, GetFatal
LEMMA EndStep ==
  ASSUME TransportInv, ListFails \/ Refuse \/ GetFatal
  PROVE  TransportInv'
<1>1. /\ Failed /\ UNCHANGED <<remote, uploads, net, cache>> /\ pc.at \notin Putting
      /\ Fault \/ UNCHANGED used
  BY DEF ListFails, Refuse, GetFatal, Putting
<1> QED
  BY <1>1, NoneOpen, FailedStep, FaultCounted, CommandTyped DEF TransportInv

\* Start
LEMMA StartStep ==
  ASSUME TransportInv, Start
  PROVE  TransportInv'
<1>1. /\ pc.at = "idle" /\ pc' = [Idle EXCEPT !.at = "list"] /\ list' = NewList
      /\ UNCHANGED <<remote, uploads, net, cache, check, used>>
  BY DEF Start
<1>2. pc' \in Command /\ pc'.at = "list" /\ pc'.upload = 0 /\ pc'.done = {}
  BY <1>1 DEF Idle, Command, At
<1>3. list' \in Listing /\ PoolOrdered' /\ ListIdle' /\ ObjectsOrdered' /\ ListSound'
  BY <1>1, <1>2, NewListing
<1>4. Typed'
  BY <1>1, <1>2, <1>3 DEF TransportInv, Typed
<1>5. NetSound'
  BY <1>1, <1>2 DEF TransportInv, NetSound, Putting
<1>6. UploadSound'
  <2>1. \A u \in 1 .. Len(uploads) : uploads[u].state # "open"
    BY <1>1, NoneOpen DEF Putting
  <2> QED
    BY <1>1, <1>2, <2>1, CommandTyped DEF UploadSound, Putting
<1>7. DoneServed'
  BY <1>2 DEF DoneServed
<1>8. VerifySound'
  BY <1>1, <1>2 DEF TransportInv, VerifySound, Reading
<1> QED
  BY <1>3, <1>4, <1>5, <1>6, <1>7, <1>8 DEF TransportInv

-----------------------------------------------------------------------------
(* The listing *)

\* The command goes on with the listing.
LEMMA ListMoves ==
  ASSUME TransportInv, pc.at \in {"list", "pool"}, pc' \in Command, pc'.at \in {"list", "pool"},
         pc'.upload = pc.upload, pc'.done = pc.done, list' \in Listing,
         UNCHANGED <<remote, uploads, net, cache, check>>, Fault \/ UNCHANGED used,
         PoolOrdered', ListIdle', ObjectsOrdered', ListSound'
  PROVE  TransportInv'
<1>1. used' \in Counts /\ used'.foreign = used.foreign
  BY FaultCounted DEF TransportInv
<1>2. Typed'
  BY <1>1 DEF TransportInv, Typed, Counts
<1>3. NetSound'
  BY DEF TransportInv, NetSound, Putting
<1>4. UploadSound'
  <2>1. pc.upload = 0 /\ \A u \in 1 .. Len(uploads) : uploads[u].state # "open"
    BY NoneOpen DEF Putting, TransportInv, UploadSound
  <2> QED
    BY <2>1, CommandTyped DEF UploadSound, Putting
<1>5. DoneServed'
  BY <1>1 DEF TransportInv, DoneServed
<1>6. VerifySound'
  BY VerifyFrame DEF Reading
<1> QED
  BY <1>2, <1>3, <1>4, <1>5, <1>6 DEF TransportInv

\* The types of what the listing knows, and where it is.
LEMMA ListTyped ==
  ASSUME TransportInv
  PROVE  /\ list \in Listing
         /\ list.page \in Seq(Listed) /\ list.objects \in Seq(Listed) /\ list.jobs \in Seq(Nat)
         /\ Len(list.page) \in Nat /\ Len(list.objects) \in Nat /\ Len(list.jobs) \in Nat
         /\ list.from \in Nat /\ list.next \in Nat /\ list.previous \in Nat /\ list.seen \in SUBSET Nat
         /\ list.busy \in SUBSET Nat /\ list.failed \in BOOLEAN /\ list.foreign \in Nat
         /\ PoolSize \in Nat /\ PoolSize <= Len(list.page) /\ PoolSize <= Workers /\ Workers \in Nat \ {0}
         /\ Len(list.page) > 0 => PoolSize > 0
         /\ \A n \in 1 .. Len(list.page) : list.page[n].key \in Nat /\ list.page[n].key \in Key
         /\ \A n \in 1 .. Len(list.objects) : list.objects[n].key \in Nat /\ list.objects[n].key \in Key
<1>1. list \in Listing
  BY DEF TransportInv, Typed
<1>2. /\ list.page \in Seq(Listed) /\ list.objects \in Seq(Listed) /\ list.jobs \in Seq(Nat)
      /\ list.from \in Nat /\ list.next \in Nat /\ list.previous \in Nat /\ list.seen \in SUBSET Nat
      /\ list.busy \in SUBSET Nat /\ list.failed \in BOOLEAN /\ list.foreign \in Nat
  BY <1>1 DEF Listing
<1>3. Len(list.page) \in Nat /\ Len(list.objects) \in Nat /\ Len(list.jobs) \in Nat
  BY <1>2
<1>4. \A e \in Listed : e.key \in Key /\ e.key \in Nat
  BY PlanKeys DEF Listed
<1>5. /\ \A n \in 1 .. Len(list.page) : list.page[n] \in Listed
      /\ \A n \in 1 .. Len(list.objects) : list.objects[n] \in Listed
  BY <1>2
<1>6. /\ PoolSize \in Nat /\ PoolSize <= Len(list.page) /\ PoolSize <= Workers /\ Workers \in Nat \ {0}
      /\ Len(list.page) > 0 => PoolSize > 0
  BY <1>3, TransportAssumption DEF PoolSize
<1> QED
  BY <1>1, <1>2, <1>3, <1>4, <1>5, <1>6

\* While a page is worked on, the numbers of its jobs are in this order.
LEMMA PoolNumbers ==
  ASSUME TransportInv, pc.at = "pool"
  PROVE  /\ Taken \in 0 .. Len(list.page) /\ Taken \in Nat /\ Len(list.objects) = list.from + Taken
         /\ Sent \in Nat /\ Begun \in Nat
         /\ Taken <= Begun /\ Begun <= Sent /\ Sent <= Taken + PoolSize /\ Sent <= Len(list.page)
         /\ Len(list.jobs) = Sent - Begun
<1>1. Taken \in 0 .. Len(list.page) /\ Len(list.jobs) <= Sent - Taken
  BY DEF TransportInv, PoolOrdered
<1>2. Taken \in Nat /\ Len(list.objects) = list.from + Taken
  BY <1>1, ListTyped DEF Taken
<1>3. Sent \in Nat /\ Sent <= Taken + PoolSize /\ Sent <= Len(list.page) /\ Taken <= Sent
  BY <1>1, <1>2, ListTyped DEF Sent
<1> QED
  BY <1>1, <1>2, <1>3, ListTyped DEF Begun

\* ListPage, ListPageAgain
LEMMA ReceiveStep ==
  ASSUME TransportInv, NEW token \in Nat, ReceivePage(token), Fault \/ UNCHANGED used,
         token = list.next \/ token \in (list.seen \union {0}) \ {list.next}
  PROVE  TransportInv'
<1> DEFINE page == PageAfter(token)
           keys == {k \in Key : k > token /\ remote[k] # "none"}
           size == IF Len(page.objects) < Workers THEN Len(page.objects) ELSE Workers
           jobs == FirstJobs(size, Len(page.objects))
           slots == [s \in 0 .. size - 1 |-> EmptySlot]
<1>1. /\ pc.at = "list" /\ pc' = [pc EXCEPT !.at = "pool"]
      /\ list' = [list EXCEPT !.page = page.objects, !.next = page.next, !.from = Len(list.objects),
                              !.jobs = jobs, !.slots = slots]
      /\ UNCHANGED <<remote, uploads, net, cache, check>>
  BY DEF ReceivePage
<1>2. /\ list \in Listing /\ list.busy = {} /\ list.next = list.previous /\ ~list.failed
      /\ Len(list.objects) \in Nat /\ list.previous \in Nat /\ list.seen \in SUBSET Nat
  BY <1>1, ListTyped DEF TransportInv, ListIdle
<1>3. /\ page.objects \in Seq(Listed) /\ page.next \in Nat
      /\ \A n \in 1 .. Len(page.objects) :
           page.objects[n].key \in keys /\ page.objects[n].etag = remote[page.objects[n].key]
      /\ \A k \in keys : page.next = 0 \/ k <= page.next =>
           \E n \in 1 .. Len(page.objects) : page.objects[n].key = k
      /\ page.next # 0 =>
           Len(page.objects) > 0 /\ page.objects[Len(page.objects)].key = page.next
      /\ \A k \in keys : Len(page.objects) > 0 /\ page.objects[1].key <= k
  BY PageHolds DEF TransportInv
<1> HIDE DEF page
<1>4. Len(page.objects) \in Nat /\ size \in Nat /\ size <= Len(page.objects) /\ size <= Workers
  BY <1>3, TransportAssumption
<1>5. /\ jobs \in Seq(Nat) /\ Len(jobs) = size /\ \A n \in 1 .. size : jobs[n] = n - 1
      /\ slots \in [0 .. size - 1 -> Slot] /\ \A s \in 0 .. size - 1 : slots[s] = EmptySlot
  <2>1. jobs = [n \in 1 .. size |-> n - 1]
    BY DEF FirstJobs
  <2>2. \A n \in 1 .. size : n - 1 \in Nat
    BY <1>4
  <2>3. EmptySlot \in Slot
    BY DEF EmptySlot, Slot
  <2> HIDE DEF jobs, size
  <2> QED
    BY <1>4, <2>1, <2>2, <2>3
<1>6. slots \in Slots
  <2> HIDE DEF slots, size
  <2> QED
    BY <1>4, <1>5 DEF Slots
<1> HIDE DEF jobs, slots
<1>7. /\ list' \in Listing
      /\ list'.page = page.objects /\ list'.next = page.next /\ list'.from = Len(list.objects)
      /\ list'.jobs = jobs /\ list'.slots = slots /\ list'.busy = {} /\ list'.objects = list.objects
      /\ list'.previous = list.previous /\ list'.seen = list.seen /\ list'.before = list.before
      /\ list'.foreign = list.foreign
  <2> HIDE DEF size
  <2> QED
    BY <1>1, <1>2, <1>3, <1>5, <1>6 DEF Listing
<1>8. pc' \in Command /\ pc'.at = "pool" /\ pc'.upload = pc.upload /\ pc'.done = pc.done
  BY <1>1, CommandTyped DEF Command, At
<1>9. PoolOrdered'
  <2>1. PoolSize' = size
    BY <1>7 DEF PoolSize
  <2>2. Taken' = 0
    BY <1>2, <1>7 DEF Taken
  <2>3. Sent' = size
    BY <1>4, <1>7, <2>1, <2>2 DEF Sent
  <2>4. Begun' = 0
    BY <1>4, <1>5, <1>7, <2>3 DEF Begun
  <2> HIDE DEF size
  <2> QED
    BY <1>4, <1>5, <1>7, <1>8, <2>1, <2>2, <2>3, <2>4 DEF PoolOrdered
<1>10. ListIdle'
  BY <1>8 DEF ListIdle
<1>11. ObjectsOrdered'
  BY <1>1, <1>2, <1>3, <1>7, <1>8 DEF TransportInv, ObjectsOrdered
<1>12. ListSound'
  <2>1. used'.foreign = used.foreign
    BY FaultCounted DEF TransportInv
  <2>2. list.foreign <= used.foreign /\ list.before \in [Key -> Content]
    BY <1>1 DEF TransportInv, ListSound
  <2> SUFFICES ASSUME list.foreign = used.foreign  PROVE ListSound'
    BY <1>7, <2>1, <2>2 DEF ListSound
  <2>3. /\ \A k \in Key : remote[k] \in {list.before[k], "new"}
        /\ \A n \in 1 .. Len(list.objects) : Found(list.objects[n])
        /\ \A k \in Key : Steady(k) /\ k <= list.previous =>
             \E n \in 1 .. Len(list.objects) : list.objects[n].key = k
    BY <1>1 DEF TransportInv, ListSound
  <2>4. /\ \A e : Found(e)' <=> Found(e)
        /\ \A k : Steady(k)' <=> Steady(k)
    BY <1>1, <1>7 DEF Found, Steady
  <2>5. \A n \in 1 .. Len(page.objects) : Found(page.objects[n])
    BY <1>3 DEF Found
  <2>6. PageGoesOn'
    <3>1. CASE token = list.next
      <4>1. \A k \in Key : Steady(k) /\ k > list.previous => k \in keys
        BY <1>2, <3>1 DEF Steady
      <4>2. \A k \in Key : Steady(k)' /\ k > list'.previous /\ (list'.next = 0 \/ k <= list'.next) =>
              \E n \in 1 .. Len(list'.page) : list'.page[n].key = k
        <5> HIDE DEF keys
        <5> QED
          BY <1>3, <1>7, <2>4, <4>1
      <4> QED
        BY <4>2 DEF PageGoesOn
    <3>2. CASE token \in (list.seen \union {0}) \ {list.next}
      <4>1. token < list.previous
        <5>1. token <= list.previous
          BY <1>1, <1>2, <3>2 DEF TransportInv, ObjectsOrdered
        <5> QED
          BY <1>2, <3>2, <5>1
      <4>2. PICK n \in 1 .. Len(list.objects) : list.objects[n].key = list.previous
        <5>1. list.previous # 0
          BY <1>2, <4>1
        <5> QED
          BY <1>1, <5>1 DEF TransportInv, ObjectsOrdered
      <4>3. list.objects[n] \in Listed /\ Found(list.objects[n])
        BY <2>3, ListTyped
      <4>4. list.previous \in Key /\ remote[list.previous] # "none"
        BY <4>2, <4>3 DEF Found, Listed
      <4>5. list.previous \in keys
        BY <4>1, <4>4
      <4>6. Len(page.objects) > 0 /\ page.objects[1].key <= list.previous
        BY <1>3, <4>5
      <4> QED
        BY <1>7, <4>6 DEF PageGoesOn
    <3> QED
      BY <3>1, <3>2
  <2> QED
    BY <1>1, <1>7, <2>1, <2>2, <2>3, <2>4, <2>5, <2>6 DEF ListSound
<1> QED
  BY <1>1, <1>7, <1>8, <1>9, <1>10, <1>11, <1>12, ListMoves

\* What the pool does inside a page leaves the inventory as it is.
LEMMA PoolFrame ==
  ASSUME TransportInv, pc.at = "pool", pc'.at = "pool",
         list'.page = list.page, list'.next = list.next, list'.from = list.from,
         list'.objects = list.objects, list'.previous = list.previous, list'.seen = list.seen,
         list'.before = list.before, list'.foreign = list.foreign,
         remote' = remote, used'.foreign = used.foreign
  PROVE  ListIdle' /\ ObjectsOrdered' /\ ListSound'
<1>1. ListIdle' /\ ObjectsOrdered'
  BY DEF TransportInv, ListIdle, ObjectsOrdered
<1>2. /\ \A e : Found(e)' <=> Found(e)
      /\ \A k : Steady(k)' <=> Steady(k)
  BY DEF Found, Steady
<1>3. PageGoesOn => PageGoesOn'
  BY <1>2 DEF PageGoesOn
<1>4. ListSound'
  BY <1>2, <1>3 DEF TransportInv, ListSound
<1> QED
  BY <1>1, <1>4

\* TakeJob
LEMMA TakeJobStep ==
  ASSUME TransportInv, TakeJob
  PROVE  TransportInv'
<1>1. /\ pc.at = "pool" /\ list.jobs # <<>>
      /\ list' = [list EXCEPT !.busy = list.busy \union {Head(list.jobs)}, !.jobs = Tail(list.jobs)]
      /\ UNCHANGED <<remote, uploads, net, cache, pc, check, used>>
  BY DEF TakeJob
<1>2. /\ list.jobs \in Seq(Nat) /\ Len(list.jobs) > 0
      /\ Head(list.jobs) = list.jobs[1] /\ Tail(list.jobs) \in Seq(Nat)
      /\ Len(Tail(list.jobs)) = Len(list.jobs) - 1 /\ Len(list.jobs) \in Nat
      /\ \A n \in 1 .. Len(list.jobs) - 1 : Tail(list.jobs)[n] = list.jobs[n + 1]
  BY <1>1, ListTyped
<1>3. Head(list.jobs) = Begun /\ Begun \in Nat
  <2>1. \A n \in 1 .. Len(list.jobs) : list.jobs[n] = Begun + n - 1
    BY <1>1 DEF TransportInv, PoolOrdered
  <2>2. 1 \in 1 .. Len(list.jobs)
    BY <1>2
  <2>3. list.jobs[1] = Begun + 1 - 1
    BY <2>1, <2>2
  <2>4. Begun \in Nat
    BY <1>1, PoolNumbers
  <2> QED
    BY <1>2, <2>3, <2>4
<1>4. /\ list' \in Listing
      /\ list'.busy = list.busy \union {Begun} /\ list'.jobs = Tail(list.jobs)
      /\ list'.page = list.page /\ list'.next = list.next /\ list'.from = list.from
      /\ list'.objects = list.objects /\ list'.previous = list.previous /\ list'.seen = list.seen
      /\ list'.before = list.before /\ list'.foreign = list.foreign /\ list'.slots = list.slots
  BY <1>1, <1>2, <1>3, ListTyped DEF Listing
<1>5. PoolSize' = PoolSize /\ Taken' = Taken /\ Sent' = Sent
  BY <1>4 DEF PoolSize, Taken, Sent
<1>6. Begun' = Begun + 1
  BY <1>1, <1>2, <1>4, <1>5, PoolNumbers DEF Begun
<1>7. ASSUME NEW s \in 0 .. PoolSize - 1, Stored(s)  PROVE Stored(s)'
  <2>1. list.slots[s].job \in Taken .. Begun - 1
    BY <1>7 DEF Stored
  <2>2. list.slots[s].job \in Taken .. Begun /\ list.slots[s].job # Begun
    BY <1>1, <2>1, PoolNumbers
  <2> QED
    BY <1>1, <1>3, <1>4, <1>5, <1>6, <1>7, <2>2 DEF Stored, Previous
<1>8. PoolOrdered'
  <2>1. /\ Taken \in 0 .. Len(list.page)
        /\ Len(list.jobs) <= Sent - Taken
        /\ \A n \in 1 .. Len(list.jobs) : list.jobs[n] = Begun + n - 1
        /\ list.busy \subseteq Taken .. Begun - 1
        /\ list.slots \in [0 .. PoolSize - 1 -> Slot]
        /\ \A s \in 0 .. PoolSize - 1 : list.slots[s] = EmptySlot \/ Stored(s)
        /\ \A n \in 1 .. Taken : /\ list.objects[list.from + n] = list.page[n]
                                 /\ list.page[n].key > list.previous
                                 /\ \A m \in 1 .. n - 1 : list.page[m].key < list.page[n].key
    BY <1>1 DEF TransportInv, PoolOrdered
  <2>2. Len(list'.jobs) <= Sent - Taken
    BY <1>1, <1>2, <1>4, <2>1, PoolNumbers
  <2>3. \A n \in 1 .. Len(list'.jobs) : list'.jobs[n] = Begun' + n - 1
    <3> SUFFICES ASSUME NEW n \in 1 .. Len(list'.jobs)  PROVE list'.jobs[n] = Begun' + n - 1
      OBVIOUS
    <3>1. n \in Nat /\ n \in 1 .. Len(list.jobs) - 1 /\ n + 1 \in 1 .. Len(list.jobs)
      BY <1>2, <1>4
    <3>2. list'.jobs[n] = list.jobs[n + 1] /\ list.jobs[n + 1] = Begun + (n + 1) - 1
      BY <1>2, <1>4, <2>1, <3>1
    <3> QED
      BY <1>3, <1>6, <3>1, <3>2
  <2>4. list'.busy \subseteq Taken .. Begun' - 1
    <3>1. Taken .. Begun - 1 \subseteq Taken .. Begun /\ Begun \in Taken .. Begun
      BY <1>1, PoolNumbers
    <3> QED
      BY <1>3, <1>4, <1>6, <2>1, <3>1
  <2>5. \A s \in 0 .. PoolSize - 1 : list'.slots[s] = EmptySlot \/ Stored(s)'
    BY <1>4, <1>7, <2>1
  <2> QED
    BY <1>1, <1>4, <1>5, <2>1, <2>2, <2>3, <2>4, <2>5 DEF PoolOrdered
<1>9. ListIdle' /\ ObjectsOrdered' /\ ListSound'
  BY <1>1, <1>4, PoolFrame
<1> QED
  BY <1>1, <1>4, <1>8, <1>9, CommandTyped, ListMoves

\* HeadInventoryObject, HeadInventoryFails
LEMMA StoreStep ==
  ASSUME TransportInv, NEW n \in list.busy, NEW ok \in BOOLEAN, StoreResult(n, ok),
         ok => HeadEvidence(n), Fault \/ UNCHANGED used
  PROVE  TransportInv'
<1> DEFINE slot == n % PoolSize
           result == [result |-> IF ok THEN "ok" ELSE "error", job |-> n]
<1>1. /\ pc.at = "pool" /\ n \in list.busy
      /\ list' = [list EXCEPT !.busy = list.busy \ {n}, !.slots[slot] = result]
      /\ UNCHANGED <<remote, uploads, net, cache, pc, check>>
  BY DEF StoreResult
<1>2. /\ Taken \in 0 .. Len(list.page)
      /\ Len(list.jobs) <= Sent - Taken
      /\ \A i \in 1 .. Len(list.jobs) : list.jobs[i] = Begun + i - 1
      /\ list.busy \subseteq Taken .. Begun - 1
      /\ list.slots \in [0 .. PoolSize - 1 -> Slot]
      /\ \A s \in 0 .. PoolSize - 1 : list.slots[s] = EmptySlot \/ Stored(s)
      /\ \A i \in 1 .. Taken : /\ list.objects[list.from + i] = list.page[i]
                               /\ list.page[i].key > list.previous
                               /\ \A m \in 1 .. i - 1 : list.page[m].key < list.page[i].key
  BY <1>1 DEF TransportInv, PoolOrdered
<1>3. n \in Nat /\ n \in Taken .. Begun - 1 /\ PoolSize > 0 /\ PoolSize \in Nat
  <2>1. n \in Taken .. Begun - 1
    BY <1>2
  <2>2. n \in Nat /\ n < Len(list.page)
    BY <1>1, <2>1, PoolNumbers, ListTyped
  <2>3. PoolSize > 0 /\ PoolSize \in Nat
    BY <2>2, ListTyped
  <2> QED
    BY <2>1, <2>2, <2>3
<1>4. slot \in 0 .. PoolSize - 1
  BY <1>3, SlotInPool
<1>5. result \in Slot /\ result.job = n /\ result.result \in {"ok", "error"} /\ (result.result = "ok" => ok)
  BY <1>3 DEF Slot
<1> HIDE DEF slot, result
<1>6. [list.slots EXCEPT ![slot] = result] \in [0 .. PoolSize - 1 -> Slot]
  BY <1>2, <1>4, <1>5
<1>7. [list.slots EXCEPT ![slot] = result] \in Slots
  BY <1>3, <1>6 DEF Slots
<1>8. /\ list' \in Listing
      /\ list'.busy = list.busy \ {n} /\ list'.jobs = list.jobs
      /\ list'.page = list.page /\ list'.next = list.next /\ list'.from = list.from
      /\ list'.objects = list.objects /\ list'.previous = list.previous /\ list'.seen = list.seen
      /\ list'.before = list.before /\ list'.foreign = list.foreign
      /\ list'.slots = [list.slots EXCEPT ![slot] = result]
  <2>1. list.busy \ {n} \in SUBSET Nat
    BY ListTyped
  <2> QED
    BY <1>1, <1>7, <2>1, ListTyped DEF Listing
<1>9. PoolSize' = PoolSize /\ Taken' = Taken /\ Sent' = Sent
  BY <1>8 DEF PoolSize, Taken, Sent
<1>10. Begun' = Begun
  BY <1>8, <1>9 DEF Begun
<1>11. ASSUME NEW s \in 0 .. PoolSize - 1  PROVE list'.slots[s] = EmptySlot \/ Stored(s)'
  <2>1. CASE s = slot
    <3>1. list'.slots[s] = result
      BY <1>2, <1>4, <1>8, <2>1
    <3>2. ok => list.page[n + 1].key > Previous(n)
      BY DEF HeadEvidence
    <3>3. Previous(n)' = Previous(n)
      BY <1>8 DEF Previous
    <3> QED
      BY <1>3, <1>5, <1>8, <1>9, <1>10, <2>1, <3>1, <3>2, <3>3 DEF Stored, slot
  <2>2. CASE s # slot
    <3>1. list'.slots[s] = list.slots[s]
      BY <1>2, <1>4, <1>8, <2>2
    <3> QED
      BY <1>2, <1>8, <1>9, <1>10, <3>1 DEF Stored, Previous
  <2> QED
    BY <2>1, <2>2
<1>12. PoolOrdered'
  BY <1>1, <1>2, <1>6, <1>8, <1>9, <1>10, <1>11 DEF PoolOrdered
<1>13. ListIdle' /\ ObjectsOrdered' /\ ListSound'
  <2>1. used'.foreign = used.foreign
    BY FaultCounted DEF TransportInv
  <2> QED
    BY <1>1, <1>8, <2>1, PoolFrame
<1> QED
  BY <1>1, <1>8, <1>12, <1>13, CommandTyped, ListMoves

\* TakeResult
LEMMA TakeResultStep ==
  ASSUME TransportInv, TakeResult
  PROVE  TransportInv'
<1> DEFINE slot == Taken % PoolSize
           found == list.page[list.slots[slot].job + 1]
           jobs == IF Taken + PoolSize < Len(list.page) THEN Append(list.jobs, Taken + PoolSize)
                   ELSE list.jobs
           slots == [list.slots EXCEPT ![slot] = EmptySlot]
<1>1. /\ pc.at = "pool" /\ Taken < Len(list.page) /\ list.slots[slot] # EmptySlot
      /\ UNCHANGED <<remote, uploads, net, cache, pc, check, used>>
      /\ list' = IF list.slots[slot].result = "error" THEN [list EXCEPT !.failed = TRUE]
                 ELSE [list EXCEPT !.objects = Append(list.objects, found), !.slots = slots, !.jobs = jobs]
  BY DEF TakeResult, Taken
<1>2. /\ Taken \in 0 .. Len(list.page)
      /\ Len(list.jobs) <= Sent - Taken
      /\ \A i \in 1 .. Len(list.jobs) : list.jobs[i] = Begun + i - 1
      /\ list.busy \subseteq Taken .. Begun - 1
      /\ list.slots \in [0 .. PoolSize - 1 -> Slot]
      /\ \A s \in 0 .. PoolSize - 1 : list.slots[s] = EmptySlot \/ Stored(s)
      /\ \A i \in 1 .. Taken : /\ list.objects[list.from + i] = list.page[i]
                               /\ list.page[i].key > list.previous
                               /\ \A m \in 1 .. i - 1 : list.page[m].key < list.page[i].key
  BY <1>1 DEF TransportInv, PoolOrdered
<1>3. PoolSize \in Nat /\ PoolSize > 0 /\ slot \in 0 .. PoolSize - 1
  <2>1. PoolSize \in Nat /\ PoolSize > 0
    BY <1>1, ListTyped, PoolNumbers
  <2> QED
    BY <1>1, <2>1, PoolNumbers, SlotInPool
<1> HIDE DEF slot
<1>4. Stored(slot)
  BY <1>1, <1>2, <1>3
<1> DEFINE job == list.slots[slot].job
<1>5. job = Taken /\ Taken \in Nat /\ Taken < Begun /\ Taken \notin list.busy
  <2>1. job \in Taken .. Begun - 1 /\ job % PoolSize = Taken % PoolSize /\ job \notin list.busy
    BY <1>4 DEF Stored, slot
  <2>2. job \in Nat /\ Taken \in Nat /\ job >= Taken /\ job < Begun /\ Begun <= Taken + PoolSize
    <3> HIDE DEF job
    <3>1. /\ Taken \in Nat /\ Begun \in Nat /\ Sent \in Nat
          /\ Begun <= Sent /\ Sent <= Taken + PoolSize
      BY <1>1, PoolNumbers
    <3> QED
      BY <1>3, <2>1, <3>1
  <2> HIDE DEF job
  <2>3. job - Taken < PoolSize /\ Taken - job < PoolSize
    <3>1. Begun \in Nat
      BY <1>1, PoolNumbers
    <3> QED
      BY <1>3, <2>2, <3>1
  <2>4. job = Taken
    BY <1>3, <2>1, <2>2, <2>3, SlotsDistinct
  <2> QED
    BY <2>1, <2>2, <2>4
<1>6. CASE list.slots[slot].result = "error"
  <2>1. /\ list' \in Listing
        /\ list'.busy = list.busy /\ list'.jobs = list.jobs
        /\ list'.page = list.page /\ list'.next = list.next /\ list'.from = list.from
        /\ list'.objects = list.objects /\ list'.previous = list.previous /\ list'.seen = list.seen
        /\ list'.before = list.before /\ list'.foreign = list.foreign /\ list'.slots = list.slots
    BY <1>1, <1>6, ListTyped DEF Listing
  <2>2. PoolSize' = PoolSize /\ Taken' = Taken /\ Sent' = Sent
    BY <2>1 DEF PoolSize, Taken, Sent
  <2>3. Begun' = Begun
    BY <2>1, <2>2 DEF Begun
  <2>4. \A s : Stored(s) => Stored(s)'
    BY <2>1, <2>2, <2>3 DEF Stored, Previous
  <2>5. PoolOrdered'
    BY <1>1, <1>2, <2>1, <2>2, <2>3, <2>4 DEF PoolOrdered
  <2>6. ListIdle' /\ ObjectsOrdered' /\ ListSound'
    BY <1>1, <2>1, PoolFrame
  <2> QED
    BY <1>1, <2>1, <2>5, <2>6, CommandTyped, ListMoves
<1>7. CASE list.slots[slot].result # "error"
  <2>1. /\ found = list.page[Taken + 1] /\ found \in Listed /\ found.key \in Nat
        /\ found.key > Previous(Taken) /\ Taken + 1 \in 1 .. Len(list.page)
    <3>1. Taken + 1 \in 1 .. Len(list.page) /\ list.page \in Seq(Listed)
      BY <1>1, <1>5, ListTyped
    <3>2. list.page[Taken + 1] \in Listed
      BY <3>1
    <3>3. list.slots[slot].result = "ok"
      BY <1>4, <1>7 DEF Stored
    <3> QED
      BY <1>4, <1>5, <3>1, <3>2, <3>3, ListTyped DEF Stored
  <2>2. /\ jobs \in Seq(Nat)
        /\ \/ /\ Taken + PoolSize < Len(list.page) /\ Len(jobs) = Len(list.jobs) + 1
              /\ jobs[Len(list.jobs) + 1] = Taken + PoolSize
           \/ /\ ~(Taken + PoolSize < Len(list.page)) /\ Len(jobs) = Len(list.jobs)
        /\ \A i \in 1 .. Len(list.jobs) : jobs[i] = list.jobs[i]
    <3>1. list.jobs \in Seq(Nat) /\ Taken + PoolSize \in Nat
      BY <1>3, <1>5, ListTyped
    <3> QED
      BY <3>1
  <2>3. slots \in [0 .. PoolSize - 1 -> Slot] /\ slots \in Slots
    <3>1. EmptySlot \in Slot
      BY DEF EmptySlot, Slot
    <3>2. slots \in [0 .. PoolSize - 1 -> Slot]
      BY <1>2, <3>1
    <3> QED
      BY <1>3, <3>2 DEF Slots
  <2>4. /\ Append(list.objects, found) \in Seq(Listed)
        /\ Len(Append(list.objects, found)) = Len(list.objects) + 1
        /\ \A i \in 1 .. Len(list.objects) : Append(list.objects, found)[i] = list.objects[i]
        /\ Append(list.objects, found)[Len(list.objects) + 1] = found
    <3> HIDE DEF found
    <3> QED
      BY <2>1, ListTyped
  <2> HIDE DEF jobs, found
  <2>5. /\ list' \in Listing
        /\ list'.busy = list.busy /\ list'.jobs = jobs
        /\ list'.page = list.page /\ list'.next = list.next /\ list'.from = list.from
        /\ list'.objects = Append(list.objects, found) /\ list'.previous = list.previous
        /\ list'.seen = list.seen /\ list'.before = list.before /\ list'.foreign = list.foreign
        /\ list'.slots = slots
    <3> HIDE DEF slots
    <3> QED
      BY <1>1, <1>7, <2>2, <2>3, <2>4, ListTyped DEF Listing
  <2>6. PoolSize' = PoolSize
    BY <2>5 DEF PoolSize
  <2>15. Len(list.objects) \in Nat /\ Len(list'.objects) = Len(list.objects) + 1
         /\ \A i \in 1 .. Len(list.objects) : list'.objects[i] = list.objects[i]
    <3>1. list.objects \in Seq(Listed) /\ Len(list.objects) \in Nat
      BY ListTyped
    <3> QED
      BY <2>4, <2>5, <3>1
  <2>7. Taken' = Taken + 1
    <3>1. Taken' = (Len(list.objects) + 1) - list.from /\ Taken = Len(list.objects) - list.from
      <4>1. list'.from = list.from /\ list.from \in Nat
        BY <2>5, ListTyped
      <4>2. Taken' = Len(list'.objects) - list'.from
        BY Zenon DEF Taken
      <4>3. Len(list'.objects) = Len(list.objects) + 1
        BY <2>15
      <4>4. Taken' = (Len(list.objects) + 1) - list.from
        <5>1. Taken' = Len(list'.objects) - list.from
          BY <4>1, <4>2, Zenon
        <5> QED
          BY <4>3, <5>1, Zenon
      <4>5. Taken = Len(list.objects) - list.from
        BY Zenon DEF Taken
      <4> QED
        BY <4>4, <4>5, Zenon
    <3>2. Len(list.objects) \in Nat /\ list.from \in Nat
      BY ListTyped
    <3> QED
      BY <3>1, <3>2
  <2>8. \/ /\ Taken + PoolSize < Len(list.page) /\ Sent = Taken + PoolSize /\ Sent' = Taken + PoolSize + 1
        \/ /\ ~(Taken + PoolSize < Len(list.page)) /\ Sent = Len(list.page) /\ Sent' = Len(list.page)
    <3>1. /\ Sent = IF Taken + PoolSize < Len(list.page) THEN Taken + PoolSize ELSE Len(list.page)
          /\ Sent' = IF Taken + 1 + PoolSize < Len(list.page) THEN Taken + 1 + PoolSize ELSE Len(list.page)
      BY <2>5, <2>6, <2>7 DEF Sent
    <3>2. Len(list.page) \in Nat
      BY ListTyped
    <3> QED
      BY <1>3, <1>5, <3>1, <3>2
  <2>9. Begun' = Begun /\ Len(jobs) = Sent' - Begun /\ Len(jobs) <= Sent' - Taken'
    <3>1. Len(list.jobs) = Sent - Begun /\ Begun \in Nat /\ Sent \in Nat /\ Len(list.jobs) \in Nat
      BY <1>1, PoolNumbers, ListTyped
    <3>2. Len(jobs) = Sent' - Begun /\ Sent' \in Nat
      <4>1. Len(list.page) \in Nat
        BY ListTyped
      <4> QED
        BY <1>3, <1>5, <2>2, <2>8, <3>1, <4>1
    <3>3. Begun' = Sent' - Len(jobs)
      BY <2>5 DEF Begun
    <3>4. Len(jobs) \in Nat
      BY <2>2
    <3>5. Begun' = Begun
      <4>1. Sent' - Len(jobs) = Begun
        BY <3>1, <3>2, <3>4, Difference, Zenon
      <4> QED
        BY <3>3, <4>1, Zenon
    <3>6. Taken + 1 <= Begun
      BY <1>5, <3>1
    <3>7. Len(jobs) <= Sent' - (Taken + 1)
      <4>1. Taken + 1 \in Nat
        BY <1>5
      <4> QED
        BY <3>1, <3>2, <3>4, <3>6, <4>1, Difference, Zenon
    <3> QED
      BY <2>7, <3>2, <3>5, <3>7
  <2>10. \A i \in 1 .. Len(jobs) : jobs[i] = Begun + i - 1
    <3> SUFFICES ASSUME NEW i \in 1 .. Len(jobs)  PROVE jobs[i] = Begun + i - 1
      OBVIOUS
    <3>1. Len(list.jobs) = Sent - Begun /\ Begun \in Nat /\ Sent \in Nat /\ Len(list.jobs) \in Nat
      BY <1>1, PoolNumbers, ListTyped
    <3>2. CASE i \in 1 .. Len(list.jobs)
      BY <1>2, <2>2, <3>2
    <3>3. CASE i \notin 1 .. Len(list.jobs)
      <4>1. Taken + PoolSize < Len(list.page) /\ i = Len(list.jobs) + 1 /\ jobs[i] = Taken + PoolSize
        BY <2>2, <3>1, <3>3
      <4> QED
        BY <1>3, <1>5, <2>8, <3>1, <4>1
    <3> QED
      BY <3>2, <3>3
  <2>11. list.busy \subseteq Taken + 1 .. Begun - 1
    <3>1. \A i \in Taken .. Begun - 1 : i # Taken => i \in Taken + 1 .. Begun - 1
      BY <1>1, <1>5, PoolNumbers
    <3> QED
      BY <1>2, <1>5, <3>1
  <2>12. ASSUME NEW s \in 0 .. PoolSize - 1  PROVE slots[s] = EmptySlot \/ Stored(s)'
    <3>1. CASE s = slot
      BY <1>2, <1>3, <3>1
    <3>2. CASE s # slot
      <4>1. slots[s] = list.slots[s]
        BY <1>2, <1>3, <3>2
      <4>2. CASE Stored(s)
        <5>1. list.slots[s].job \in Taken .. Begun - 1 /\ list.slots[s].job % PoolSize = s
          BY <4>2 DEF Stored
        <5>2. list.slots[s].job # Taken
          BY <3>2, <5>1 DEF slot
        <5>3. list.slots[s].job \in Taken + 1 .. Begun - 1
          BY <1>1, <1>5, <5>1, <5>2, PoolNumbers
        <5> QED
          BY <2>5, <2>6, <2>7, <2>9, <4>1, <4>2, <5>3 DEF Stored, Previous
      <4> QED
        BY <1>2, <4>1, <4>2
    <3> QED
      BY <3>1, <3>2
  <2>13. ASSUME NEW i \in 1 .. Taken + 1
         PROVE  /\ list'.objects[list.from + i] = list.page[i]
                /\ list.page[i].key > list.previous
                /\ \A m \in 1 .. i - 1 : list.page[m].key < list.page[i].key
    <3>1. Len(list.objects) = list.from + Taken /\ list.from \in Nat
      BY <1>1, PoolNumbers, ListTyped
    <3>2. CASE i \in 1 .. Taken
      <4>1. list.from + i \in 1 .. Len(list.objects)
        BY <1>5, <3>1, <3>2
      <4> QED
        BY <1>2, <2>4, <2>5, <3>2, <4>1
    <3>3. CASE i = Taken + 1
      <4>1. list'.objects[list.from + i] = list.page[i]
        <5>1. list.from + i = Len(list.objects) + 1
          BY <1>5, <3>1, <3>3
        <5> QED
          BY <2>1, <2>4, <2>5, <3>3, <5>1
      <4>2. CASE Taken = 0
        <5>1. found.key > list.previous /\ i = 1
          BY <2>1, <3>3, <4>2 DEF Previous
        <5> QED
          BY <2>1, <3>3, <4>1, <5>1
      <4>3. CASE Taken > 0
        <5>1. Previous(Taken) = list.page[Taken].key /\ Taken \in 1 .. Taken /\ Taken \in 1 .. Len(list.page)
          BY <1>1, <1>5, <4>3, ListTyped DEF Previous
        <5>2. /\ list.page[Taken].key > list.previous
              /\ \A m \in 1 .. Taken - 1 : list.page[m].key < list.page[Taken].key
          BY <1>2, <5>1
        <5>3. /\ list.page[i].key > list.page[Taken].key
              /\ list.page[i].key \in Nat /\ list.page[Taken].key \in Nat
          BY <2>1, <3>3, <5>1, ListTyped
        <5>4. list.page[i].key > list.previous
          BY <5>2, <5>3, ListTyped
        <5>5. ASSUME NEW m \in 1 .. i - 1  PROVE list.page[m].key < list.page[i].key
          <6>1. m \in 1 .. Len(list.page) /\ (m = Taken \/ m \in 1 .. Taken - 1)
            BY <1>1, <1>5, <3>3, <5>1, ListTyped
          <6>2. list.page[m].key \in Nat
            BY <6>1, ListTyped
          <6> QED
            BY <5>2, <5>3, <6>1, <6>2
        <5> QED
          BY <4>1, <5>4, <5>5
      <4> QED
        BY <1>5, <4>2, <4>3
    <3> QED
      BY <1>5, <3>2, <3>3
  <2>14. PoolOrdered'
    <3>1. Taken' \in 0 .. Len(list.page)
      BY <1>1, <1>5, <2>7, ListTyped
    <3> QED
      BY <1>1, <2>3, <2>5, <2>6, <2>7, <2>9, <2>10, <2>11, <2>12, <2>13, <3>1 DEF PoolOrdered
  <2>16. ListIdle' /\ ObjectsOrdered'
    <3>1. list.from \in Nat /\ list.from <= Len(list.objects)
      BY <1>1, ListTyped DEF TransportInv, ObjectsOrdered
    <3>2. \A i \in 1 .. list.from : list'.objects[i] = list.objects[i]
      BY <2>15, <3>1
    <3>3. list.from <= Len(list'.objects)
      BY <2>15, <3>1
    <3> QED
      <4>1. ListIdle'
        BY <1>1 DEF ListIdle
      <4>2. ObjectsOrdered
        BY DEF TransportInv
      <4>3. /\ \A m, n \in 1 .. list.from : m < n => list'.objects[m].key < list'.objects[n].key
            /\ \A n \in 1 .. list.from : list'.objects[n].key <= list.previous
            /\ list.previous # 0 => \E n \in 1 .. list.from : list'.objects[n].key = list.previous
            /\ \A t \in list.seen : t <= list.previous
            /\ list.next # 0 => Len(list.page) > 0 /\ list.page[Len(list.page)].key = list.next
        BY <1>1, <3>2, <4>2 DEF ObjectsOrdered
      <4>4. ObjectsOrdered'
        BY <1>1, <2>5, <3>3, <4>3 DEF ObjectsOrdered
      <4> QED
        BY <4>1, <4>4
  <2>17. ListSound'
    <3>1. /\ \A e : Found(e)' <=> Found(e)
          /\ \A k : Steady(k)' <=> Steady(k)
      BY <1>1, <2>5 DEF Found, Steady
    <3>2. PageGoesOn => PageGoesOn'
      BY <2>5, <3>1 DEF PageGoesOn
    <3>3. list.foreign = used.foreign =>
            \A i \in 1 .. Len(list'.objects) : Found(list'.objects[i])
      <4> SUFFICES ASSUME list.foreign = used.foreign, NEW i \in 1 .. Len(list'.objects)
                   PROVE  Found(list'.objects[i])
        OBVIOUS
      <4>1. /\ \A n \in 1 .. Len(list.objects) : Found(list.objects[n])
            /\ \A n \in 1 .. Len(list.page) : Found(list.page[n])
        BY <1>1 DEF TransportInv, ListSound
      <4>2. CASE i \in 1 .. Len(list.objects)
        BY <2>15, <4>1, <4>2
      <4>3. CASE i = Len(list.objects) + 1
        BY <2>1, <2>4, <2>5, <4>1, <4>3
      <4> QED
        BY <2>15, <4>2, <4>3
    <3>4. \A k \in Key : (\E n \in 1 .. Len(list.objects) : list.objects[n].key = k) =>
                           \E n \in 1 .. Len(list'.objects) : list'.objects[n].key = k
      BY <2>15
    <3> QED
      BY <1>1, <2>5, <3>1, <3>2, <3>3, <3>4 DEF TransportInv, ListSound
  <2> QED
    BY <1>1, <2>5, <2>14, <2>16, <2>17, CommandTyped, ListMoves
<1> QED
  BY <1>6, <1>7

\* When all results of a page are taken, what is listed is in order, and holds
\* all that was there all the time up to the end of the page.
LEMMA PageTaken ==
  ASSUME TransportInv, pc.at = "pool", Taken = Len(list.page)
  PROVE  /\ \A m, n \in 1 .. Len(list.objects) : m < n => list.objects[m].key < list.objects[n].key
         /\ list.next # 0 => /\ \A n \in 1 .. Len(list.objects) : list.objects[n].key <= list.next
                             /\ \E n \in 1 .. Len(list.objects) : list.objects[n].key = list.next
                             /\ list.previous <= list.next
         /\ list.foreign = used.foreign =>
              \A k \in Key : Steady(k) /\ (list.next = 0 \/ k <= list.next) =>
                \E n \in 1 .. Len(list.objects) : list.objects[n].key = k
<1>1. /\ Len(list.objects) = list.from + Taken /\ list.from \in Nat /\ Taken \in Nat
      /\ list.previous \in Nat /\ list.next \in Nat
      /\ \A n \in 1 .. Taken : list.page[n].key \in Nat
      /\ \A n \in 1 .. Len(list.objects) : list.objects[n].key \in Nat
  BY PoolNumbers, ListTyped
<1>2. \A n \in 1 .. Taken : /\ list.objects[list.from + n] = list.page[n]
                            /\ list.page[n].key > list.previous
                            /\ \A m \in 1 .. n - 1 : list.page[m].key < list.page[n].key
  BY DEF TransportInv, PoolOrdered
<1>3. /\ \A m, n \in 1 .. list.from : m < n => list.objects[m].key < list.objects[n].key
      /\ \A n \in 1 .. list.from : list.objects[n].key <= list.previous
      /\ list.next # 0 => Taken > 0 /\ list.page[Taken].key = list.next
  BY DEF TransportInv, ObjectsOrdered
<1>4. ASSUME NEW n \in 1 .. Len(list.objects), n \notin 1 .. list.from
      PROVE  n - list.from \in 1 .. Taken /\ list.objects[n] = list.page[n - list.from]
  <2>1. n - list.from \in 1 .. Taken /\ list.from + (n - list.from) = n
    BY <1>1, <1>4
  <2> QED
    BY <1>2, <2>1
<1>5. ASSUME NEW m \in 1 .. Len(list.objects), NEW n \in 1 .. Len(list.objects), m < n
      PROVE  list.objects[m].key < list.objects[n].key
  <2>1. CASE n \in 1 .. list.from
    <3>1. m \in 1 .. list.from
      BY <1>1, <1>5, <2>1
    <3> QED
      BY <1>3, <1>5, <2>1, <3>1
  <2>2. CASE n \notin 1 .. list.from
    <3>1. n - list.from \in 1 .. Taken /\ list.objects[n] = list.page[n - list.from]
      BY <1>4, <2>2
    <3>2. list.objects[n].key > list.previous
      BY <1>2, <3>1
    <3>3. CASE m \in 1 .. list.from
      <4>1. list.objects[m].key <= list.previous /\ list.objects[m].key \in Nat /\ list.objects[n].key \in Nat
        BY <1>1, <1>3, <3>3
      <4> QED
        BY <1>1, <3>2, <4>1
    <3>4. CASE m \notin 1 .. list.from
      <4>1. m - list.from \in 1 .. Taken /\ list.objects[m] = list.page[m - list.from]
        BY <1>4, <3>4
      <4>2. m - list.from \in 1 .. (n - list.from) - 1
        BY <1>1, <1>5, <3>1, <4>1
      <4> QED
        BY <1>2, <3>1, <4>1, <4>2
    <3> QED
      BY <3>3, <3>4
  <2> QED
    BY <2>1, <2>2
<1>6. ASSUME list.next # 0
      PROVE  /\ \A n \in 1 .. Len(list.objects) : list.objects[n].key <= list.next
             /\ \E n \in 1 .. Len(list.objects) : list.objects[n].key = list.next
             /\ list.previous <= list.next
  <2> DEFINE last == Len(list.objects)
  <2>1. Taken \in 1 .. Taken /\ list.page[Taken].key = list.next
    BY <1>1, <1>3, <1>6
  <2>2. last \in 1 .. last /\ list.objects[last].key = list.next
    <3>1. list.objects[list.from + Taken] = list.page[Taken]
      BY <1>2, <2>1
    <3> QED
      BY <1>1, <2>1, <3>1
  <2>3. list.previous < list.next
    BY <1>2, <2>1
  <2>4. ASSUME NEW n \in 1 .. last  PROVE list.objects[n].key <= list.next
    <3>1. n = last \/ n < last
      BY <1>1
    <3>2. list.objects[n].key \in Nat
      BY <1>1
    <3> QED
      BY <1>1, <1>5, <2>2, <3>1, <3>2
  <2> QED
    BY <1>1, <2>2, <2>3, <2>4
<1>7. ASSUME list.foreign = used.foreign, NEW k \in Key, Steady(k), list.next = 0 \/ k <= list.next
      PROVE  \E n \in 1 .. Len(list.objects) : list.objects[n].key = k
  <2>1. /\ k <= list.previous => \E n \in 1 .. Len(list.objects) : list.objects[n].key = k
        /\ PageGoesOn
    BY <1>7 DEF TransportInv, ListSound
  <2>2. k \in Nat
    BY PlanKeys
  <2>3. CASE k > list.previous
    <3>1. ~(Len(list.page) > 0 /\ list.page[1].key <= list.previous)
      <4> SUFFICES ASSUME Len(list.page) > 0  PROVE ~(list.page[1].key <= list.previous)
        OBVIOUS
      <4>1. 1 \in 1 .. Taken
        BY <1>1
      <4> QED
        BY <1>1, <1>2, <4>1
    <3>2. PICK n \in 1 .. Len(list.page) : list.page[n].key = k
      BY <1>7, <2>1, <2>3, <3>1 DEF PageGoesOn
    <3>3. list.from + n \in 1 .. Len(list.objects) /\ list.objects[list.from + n] = list.page[n]
      BY <1>1, <1>2
    <3> QED
      BY <3>2, <3>3
  <2> QED
    BY <1>1, <2>1, <2>2, <2>3
<1> QED
  BY <1>5, <1>6, <1>7

\* ReturnPage
LEMMA ReturnPageStep ==
  ASSUME TransportInv, ReturnPage
  PROVE  TransportInv'
<1>1. /\ pc.at = "pool" /\ list.jobs = <<>> /\ list.busy = {}
      /\ UNCHANGED <<remote, uploads, net, cache, used>>
  BY DEF ReturnPage
<1>2. CASE Failed
  BY <1>1, <1>2, NoneOpen, FailedStep, FaultCounted, CommandTyped DEF TransportInv, Putting
<1>3. CASE /\ ~list.failed /\ list.next # 0 /\ list.next \notin list.seen
           /\ pc' = [pc EXCEPT !.at = "list"]
           /\ list' = [list EXCEPT !.seen = list.seen \union {list.next}, !.slots = <<>>, !.page = <<>>,
                                   !.previous = Last(list.page).key]
           /\ UNCHANGED check
  <2>1. Taken = Len(list.page) /\ Len(list.page) > 0
        /\ list.page[Len(list.page)].key = list.next /\ Last(list.page).key = list.next
    BY <1>1, <1>3 DEF ReturnPage, Taken, Last, TransportInv, ObjectsOrdered
  <2>2. /\ list' \in Listing
        /\ list'.busy = {} /\ list'.jobs = <<>> /\ list'.page = <<>> /\ list'.next = list.next
        /\ list'.objects = list.objects /\ list'.previous = list.next /\ list'.failed = FALSE
        /\ list'.seen = list.seen \union {list.next} /\ list'.before = list.before
        /\ list'.foreign = list.foreign
    <3>1. <<>> \in Slots /\ <<>> \in Seq(Listed)
      BY EmptyListing DEF NoList, Listing
    <3> QED
      BY <1>1, <1>3, <2>1, <3>1, ListTyped DEF Listing
  <2>3. pc' \in Command /\ pc'.at = "list" /\ pc'.upload = pc.upload /\ pc'.done = pc.done
    BY <1>3, CommandTyped DEF Command, At
  <2>4. PoolOrdered' /\ ListIdle'
    BY <2>2, <2>3 DEF PoolOrdered, ListIdle
  <2>5. /\ \A m, n \in 1 .. Len(list.objects) : m < n => list.objects[m].key < list.objects[n].key
        /\ \A n \in 1 .. Len(list.objects) : list.objects[n].key <= list.next
        /\ \E n \in 1 .. Len(list.objects) : list.objects[n].key = list.next
        /\ list.previous <= list.next
        /\ list.foreign = used.foreign =>
             \A k \in Key : Steady(k) /\ k <= list.next =>
               \E n \in 1 .. Len(list.objects) : list.objects[n].key = k
    BY <1>1, <1>3, <2>1, PageTaken
  <2>6. ObjectsOrdered'
    <3>1. \A t \in list.seen \union {list.next} : t <= list.next
      <4>1. \A t \in list.seen : t <= list.previous
        BY <1>1 DEF TransportInv, ObjectsOrdered
      <4>2. list.next \in Nat /\ list.previous \in Nat /\ \A t \in list.seen : t \in Nat
        BY ListTyped
      <4> QED
        BY <2>5, <4>1, <4>2
    <3>2. Len(list.objects) \in Nat
      BY ListTyped
    <3> QED
      BY <2>2, <2>3, <2>5, <3>1, <3>2 DEF ObjectsOrdered
  <2>7. ListSound'
    <3>1. /\ \A e : Found(e)' <=> Found(e)
          /\ \A k : Steady(k)' <=> Steady(k)
      BY <1>1, <2>2 DEF Found, Steady
    <3> QED
      BY <1>1, <2>2, <2>3, <2>5, <3>1 DEF TransportInv, ListSound
  <2> QED
    BY <1>1, <1>3, <2>2, <2>3, <2>4, <2>6, <2>7, CommandTyped, ListMoves
<1>4. CASE /\ pc' = [pc EXCEPT !.at = IF pc.done = Plan THEN "verify" ELSE "head"]
           /\ list' = NoList
           /\ check' = [NoCheck EXCEPT !.todo = pc.done]
  <2>1. /\ pc' \in Command /\ pc'.at \in {"verify", "head"} /\ pc'.upload = pc.upload
        /\ pc'.done = pc.done /\ pc'.key = pc.key
    BY <1>4, CommandTyped DEF Command, At
  <2>2. check' \in Verification /\ check'.todo = pc.done
    BY <1>4, EmptyListing, CommandTyped DEF NoCheck, Verification
  <2>3. Typed'
    BY <1>1, <1>4, <2>1, <2>2, EmptyListing DEF TransportInv, Typed
  <2>4. NetSound'
    BY <1>1, <2>1 DEF TransportInv, NetSound, Putting
  <2>5. UploadSound'
    <3>1. pc.upload = 0 /\ \A u \in 1 .. Len(uploads) : uploads[u].state # "open"
      BY <1>1, NoneOpen DEF TransportInv, UploadSound, Putting
    <3> QED
      BY <1>1, <2>1, <3>1, CommandTyped DEF UploadSound, Putting
  <2>6. DoneServed' /\ VerifySound'
    BY <1>1, <2>1, <2>2 DEF TransportInv, DoneServed, VerifySound, Reading
  <2> QED
    BY <1>4, <2>1, <2>3, <2>4, <2>5, <2>6, OutsideListing DEF TransportInv
<1> QED
  BY <1>2, <1>3, <1>4 DEF ReturnPage

-----------------------------------------------------------------------------
(* The theorems *)

\* It holds when a command is first given, with nothing under way.
LEMMA InitInv == Init => TransportInv
<1> SUFFICES ASSUME Init  PROVE TransportInv
  OBVIOUS
<1>1. /\ remote = [k \in Key |-> IF k \in Present THEN "old" ELSE "none"]
      /\ uploads = <<>> /\ net = {} /\ pc = Idle /\ list = NoList /\ check = NoCheck
      /\ cache = [k \in Key |-> [content |-> "none", left |-> 0]]
      /\ used = [faults |-> 0, stops |-> 0, foreign |-> 0]
  BY DEF Init
<1>2. Typed
  <2>1. [content |-> "none", left |-> 0] \in [content : Content, left : 0 .. MaxCacheTTL]
    BY TransportAssumption DEF Content
  <2>2. IsFiniteSet(net)
    BY <1>1, FS_EmptySet
  <2> QED
    BY <1>1, <2>1, <2>2, EmptyListing DEF Typed, Content
<1>3. NetSound /\ UploadSound /\ DoneServed /\ VerifySound
  BY <1>1 DEF NetSound, UploadSound, DoneServed, VerifySound, Idle, NoCheck, Putting, Reading
<1>4. PoolOrdered /\ ListIdle /\ ObjectsOrdered /\ ListSound
  BY <1>1 DEF PoolOrdered, ListIdle, ObjectsOrdered, ListSound, Idle
<1> QED
  BY <1>2, <1>3, <1>4 DEF TransportInv

\* The steps of the listing.
LEMMA ListStepInv ==
  ASSUME TransportInv, ListStep \/ ListPageAgain \/ \E n \in list.busy : HeadInventoryFails(n)
  PROVE  TransportInv'
<1>1. ASSUME ListPage  PROVE TransportInv'
  BY <1>1, ListTyped, ReceiveStep DEF ListPage
<1>2. ASSUME ListPageAgain  PROVE TransportInv'
  <2>1. PICK token \in (list.seen \union {0}) \ {list.next} : ReceivePage(token)
    BY <1>2 DEF ListPageAgain
  <2>2. token \in Nat /\ Fault
    BY <1>2, ListTyped DEF ListPageAgain
  <2> QED
    BY <2>1, <2>2, ReceiveStep
<1>3. ASSUME NEW n \in list.busy, HeadInventoryObject(n)  PROVE TransportInv'
  <2>1. HeadEvidence(n) \in BOOLEAN
    BY DEF HeadEvidence
  <2> QED
    BY <1>3, <2>1, StoreStep DEF HeadInventoryObject
<1>4. ASSUME NEW n \in list.busy, HeadInventoryFails(n)  PROVE TransportInv'
  BY <1>4, StoreStep DEF HeadInventoryFails
<1> QED
  BY <1>1, <1>2, <1>3, <1>4, TakeJobStep, TakeResultStep, ReturnPageStep DEF ListStep

\* Every step keeps it.
LEMMA StepInv == TransportInv /\ [Next]_vars => TransportInv'
<1> SUFFICES ASSUME TransportInv, [Next]_vars  PROVE TransportInv'
  OBVIOUS
<1>1. CASE ListStep
  BY <1>1, ListStepInv
<1>2. CASE PutStep
  BY <1>2, PutHeadStep, CreateStep, PartsStep, SendStep, AbortStep, ConfirmStep, AnsweredStep, TimeOutStep
     DEF PutStep
<1>3. CASE VerifyStep
  BY <1>3, VerifyPublicStep, GetPublicStep, EndStep, ProbeStep, WaitStep DEF VerifyStep
<1>4. CASE Trouble
  BY <1>4, ListStepInv, EndStep, CreateStep, PartsStep, AbortStep, ConfirmStep, LateStep, TimeOutStep,
     WaitStep, StopStep DEF Trouble
<1>5. CASE UNCHANGED vars
  <2>1. UNCHANGED <<remote, uploads, net, cache, pc, list, check, used>>
    BY <1>5 DEF vars
  <2>2. cache' \in [Key -> Copy] /\ check' \in Verification /\ VerifySound'
    BY <2>1, VerifyTyped DEF TransportInv, VerifySound
  <2> QED
    BY <2>1, <2>2, CacheChanges
<1> QED
  BY <1>1, <1>2, <1>3, <1>4, <1>5, StartStep, TickStep, ReadStep, ForeignWriteStep DEF Next

\* Whatever is lost, late, repeated or killed, the pool keeps the order of the
\* page, what is listed is what is there, and each request is one of the plan.
THEOREM Invariance == Spec => []TransportInv
BY InitInv, StepInv, PTL DEF Spec

\* Workers and results never share a slot, and the jobs fit the pool.
LEMMA PoolFits == TransportInv => TransportSafe
<1> SUFFICES ASSUME TransportInv  PROVE TransportSafe
  OBVIOUS
<1>1. Len(list.jobs) + Cardinality(list.busy) <= Workers
  <2>1. CASE pc.at = "pool"
    <3>1. list.busy \subseteq Taken .. Begun - 1
      BY <2>1 DEF TransportInv, PoolOrdered
    <3>2. /\ Taken \in Nat /\ Begun \in Nat /\ Sent \in Nat /\ Taken <= Begun /\ Begun <= Sent
          /\ Sent <= Taken + PoolSize /\ PoolSize \in Nat /\ PoolSize <= Workers /\ Workers \in Nat
          /\ Len(list.jobs) = Sent - Begun
      BY <2>1, PoolNumbers, ListTyped
    <3>3. IsFiniteSet(Taken .. Begun - 1) /\ Cardinality(Taken .. Begun - 1) = Begun - Taken
      <4>1. Taken \in Int /\ Begun - 1 \in Int
        BY <3>2
      <4>2. /\ IsFiniteSet(Taken .. Begun - 1)
            /\ Cardinality(Taken .. Begun - 1) =
                 IF Taken > Begun - 1 THEN 0 ELSE Begun - 1 - Taken + 1
        BY <4>1, FS_Interval
      <4>3. CASE Taken > Begun - 1
        <5>1. Begun - Taken = 0
          BY <3>2, <4>3
        <5> QED
          BY <4>2, <4>3, <5>1, Zenon
      <4>4. CASE ~(Taken > Begun - 1)
        <5>1. Begun - 1 - Taken + 1 = Begun - Taken
          BY <3>2
        <5> QED
          BY <4>2, <4>4, <5>1, Zenon
      <4> QED
        BY <4>3, <4>4
    <3>4. Cardinality(list.busy) <= Begun - Taken /\ Cardinality(list.busy) \in Nat
      BY <3>1, <3>3, FS_Subset, FS_CardinalityType
    <3> QED
      BY <3>2, <3>4
  <2>2. CASE pc.at # "pool"
    <3>1. Len(list.jobs) = 0 /\ list.busy = {}
      BY <2>2 DEF TransportInv, ListIdle, NoList
    <3> QED
      BY <3>1, FS_EmptySet, ListTyped
  <2> QED
    BY <2>1, <2>2
<1>2. TypeOK
  <2>1. \A r \in net : r.key \in Plan /\ r.upload \in 0 .. Len(uploads) /\ r.condition \in Content
    <3>1. \A r \in net : r \in Request /\ r.upload <= Len(uploads)
      BY DEF TransportInv, Typed, NetSound
    <3> QED
      BY <3>1, CommandTyped DEF Request
  <2>2. pc.upload \in 0 .. Len(uploads)
    BY CommandTyped DEF TransportInv, UploadSound
  <2>3. check.sleep <= MaxBackoff
    BY VerifyTyped DEF Verification
  <2> QED
    BY <1>1, <2>1, <2>2, <2>3, CommandTyped, ListTyped, VerifyTyped DEF TypeOK, Copy
<1>3. PoolSound
  <2> SUFFICES ASSUME pc.at = "pool"
               PROVE  /\ \A n \in list.busy : list.slots[n % PoolSize] = EmptySlot
                      /\ \A n \in 1 .. Taken : list.objects[list.from + n] = list.page[n]
    BY DEF PoolSound, Taken
  <2>1. /\ list.busy \subseteq Taken .. Begun - 1
        /\ \A s \in 0 .. PoolSize - 1 : list.slots[s] = EmptySlot \/ Stored(s)
        /\ \A n \in 1 .. Taken : list.objects[list.from + n] = list.page[n]
    BY DEF TransportInv, PoolOrdered
  <2>2. ASSUME NEW n \in list.busy, list.slots[n % PoolSize] # EmptySlot  PROVE FALSE
    <3> DEFINE job == list.slots[n % PoolSize].job
    <3>1. /\ Taken \in Nat /\ Begun \in Nat /\ Sent \in Nat /\ Begun <= Sent
          /\ Sent <= Taken + PoolSize /\ Sent <= Len(list.page) /\ PoolSize \in Nat
      BY PoolNumbers, ListTyped
    <3>2. n \in Nat /\ n >= Taken /\ n < Begun
      BY <2>1, <3>1
    <3>3. PoolSize > 0
      BY <3>1, <3>2, ListTyped
    <3>4. Stored(n % PoolSize)
      BY <2>1, <2>2, <3>1, <3>2, <3>3, SlotInPool
    <3>5. job \in Taken .. Begun - 1 /\ job % PoolSize = n % PoolSize /\ job \notin list.busy
      BY <3>4 DEF Stored
    <3> HIDE DEF job
    <3>6. job \in Nat /\ job - n < PoolSize /\ n - job < PoolSize
      BY <3>1, <3>2, <3>5
    <3>7. job = n
      BY <3>1, <3>2, <3>3, <3>5, <3>6, SlotsDistinct
    <3> QED
      BY <3>5, <3>7
  <2> QED
    BY <2>1, <2>2
<1>4. UploadsClosed
  <2>1. DOMAIN uploads = 1 .. Len(uploads)
    BY CommandTyped
  <2> QED
    BY <2>1 DEF TransportInv, UploadSound, UploadsClosed
<1> QED
  BY <1>2, <1>3, <1>4 DEF TransportSafe

\* The pool of workers neither hangs nor mixes up results, and no upload stays
\* open behind the command that began it.
THEOREM TransportSafeHolds == Spec => []TransportSafe
BY PoolFits, Invariance, PTL

\* A step that makes an object new found there what the plan expects.
LEMMA WritesExpected ==
  ASSUME TransportInv, Next, NEW k \in Key, remote'[k] = "new", remote[k] # "new"
  PROVE  k \in Plan /\ remote[k] = Base(k)
<1>1. ASSUME NEW r \in net, Answered(r) \/ Lost(r) \/ CarriedOutLate(r)
      PROVE  k \in Plan /\ remote[k] = Base(k)
  <2>1. CarryOut(r) \/ (net' = net \ {r} /\ UNCHANGED <<remote, uploads>>)
    BY <1>1 DEF Answered, Lost, CarriedOutLate
  <2>2. OnlyExpected
    BY <2>1, CarriedOut
  <2> QED
    BY <2>2 DEF OnlyExpected
<1>2. ASSUME NEW j \in Key, NEW c \in {"none", "other"}, ForeignWrite(j, c)
      PROVE  FALSE
  BY <1>2, VerifyTyped DEF ForeignWrite
<1>3. CASE UNCHANGED remote
  BY <1>3
<1>4. CASE ListStep \/ PutStep \/ VerifyStep
  BY <1>1, <1>3, <1>4
     DEF ListStep, ListPage, ReceivePage, TakeJob, TakeResult, ReturnPage, HeadInventoryObject, StoreResult,
         PutStep, PutHead, CreateUpload, UploadParts, Send, AbortMultipart, PutConfirm, TimeOut,
         VerifyStep, VerifyPublic, GetPublic, Refuse, Probe, Pause, Wake
<1>5. CASE Trouble
  BY <1>1, <1>3, <1>5
     DEF Trouble, ListPageAgain, ReceivePage, ListFails, HeadInventoryFails, StoreResult, CreateUnanswered,
         PartFails, AbortFails, HeadFails, TimeOut, GetFails, GetFatal, Stop
<1> QED
  BY <1>2, <1>3, <1>4, <1>5 DEF Next, Start, Tick, Read

\* No write request, late, repeated or from a command long dead, replaces
\* anything but what the plan expected to find.
THEOREM NeverClobbersHolds == Spec => NeverClobbers
<1>1. TransportInv /\ [Next]_vars =>
        [\A k \in Key : remote'[k] = "new" /\ remote[k] # "new" => k \in Plan /\ remote[k] = Base(k)]_remote
  BY WritesExpected DEF vars
<1> QED
  BY <1>1, Invariance, PTL DEF Spec, NeverClobbers

\* An inventory that is accepted is in order, and is what was there as long as
\* nobody else writes.
LEMMA AcceptedExact ==
  ASSUME TransportInv, ReturnPage, pc'.at \in {"head", "verify"}
  PROVE  LET objects == list.objects
         IN /\ \A m, n \in DOMAIN objects : m < n => objects[m].key < objects[n].key
            /\ used.foreign = list.foreign =>
                 \A k \in Key : remote[k] = list.before[k] =>
                   \A c \in Content \ {"none"} :
                     (\E n \in DOMAIN objects : objects[n] = [key |-> k, etag |-> c]) <=> remote[k] = c
<1>1. pc.at = "pool" /\ ~list.failed /\ list.next = 0 /\ Taken = Len(list.page)
  BY CommandTyped DEF ReturnPage, Failed, Idle, Taken, Command
<1>2. DOMAIN list.objects = 1 .. Len(list.objects)
  BY ListTyped
<1>3. \A m, n \in 1 .. Len(list.objects) : m < n => list.objects[m].key < list.objects[n].key
  BY <1>1, PageTaken
<1>4. ASSUME used.foreign = list.foreign, NEW k \in Key, remote[k] = list.before[k],
             NEW c \in Content \ {"none"}
      PROVE  (\E n \in 1 .. Len(list.objects) : list.objects[n] = [key |-> k, etag |-> c]) <=> remote[k] = c
  <2>1. \A n \in 1 .. Len(list.objects) : list.objects[n] \in Listed /\ Found(list.objects[n])
    BY <1>1, <1>4, ListTyped DEF TransportInv, ListSound
  <2>2. ASSUME NEW n \in 1 .. Len(list.objects), list.objects[n].key = k
        PROVE  list.objects[n] = [key |-> k, etag |-> remote[k]]
    <3>1. list.objects[n] \in Listed /\ remote[k] = list.objects[n].etag
      BY <1>4, <2>1, <2>2 DEF Found
    <3> QED
      BY <2>2, <3>1 DEF Listed
  <2>3. ASSUME remote[k] = c
        PROVE  \E n \in 1 .. Len(list.objects) : list.objects[n] = [key |-> k, etag |-> c]
    <3>1. Steady(k)
      BY <1>4, <2>3 DEF Steady
    <3>2. PICK n \in 1 .. Len(list.objects) : list.objects[n].key = k
      BY <1>1, <1>4, <3>1, PageTaken
    <3> QED
      BY <2>2, <2>3, <3>2
  <2>4. ASSUME NEW n \in 1 .. Len(list.objects), list.objects[n] = [key |-> k, etag |-> c]
        PROVE  remote[k] = c
    <3>1. list.objects[n].key = k /\ list.objects[n].etag = c
      BY <2>4
    <3>2. list.objects[n].etag = remote[k]
      BY <2>2, <3>1
    <3> QED
      BY <3>1, <3>2
  <2> QED
    BY <2>3, <2>4
<1> QED
  BY <1>2, <1>3, <1>4

\* An accepted inventory names each object once and in order, and misses or
\* invents nothing that was the same all the time.
THEOREM InventoryExactHolds == Spec => InventoryExact
<1> DEFINE Exact ==
      LET objects == list.objects
      IN /\ \A m, n \in DOMAIN objects : m < n => objects[m].key < objects[n].key
         /\ used.foreign = list.foreign =>
              \A k \in Key : remote[k] = list.before[k] =>
                \A c \in Content \ {"none"} :
                  (\E n \in DOMAIN objects : objects[n] = [key |-> k, etag |-> c]) <=> remote[k] = c
<1>1. TransportInv => [ReturnPage /\ pc'.at \in {"head", "verify"} => Exact]_vars
  BY AcceptedExact
<1>2. Spec => [][ReturnPage /\ pc'.at \in {"head", "verify"} => Exact]_vars
  <2> HIDE DEF Exact
  <2> QED
    BY <1>1, Invariance, PTL
<1> QED
  BY <1>2 DEF InventoryExact

\* An object in place is refused only when the cache had all the time it may
\* take, or when a request was slow.
THEOREM StaleRefusedHolds == Spec => StaleRefused
<1>1. TransportInv => [Refuse /\ pc.at # "transient" /\ used.foreign = 0 => check.slow]_vars
  <2> SUFFICES ASSUME TransportInv, Refuse, pc.at # "transient", used.foreign = 0, ~check.slow
               PROVE  FALSE
    BY VerifyTyped
  <2>1. pc.at \in {"stale", "probed"} /\ check.stale = 0
    BY DEF Refuse, Deadline
  <2>2. check.stale > 0
    BY <2>1 DEF TransportInv, VerifySound
  <2> QED
    BY <2>1, <2>2
<1> QED
  BY <1>1, Invariance, PTL DEF StaleRefused
=============================================================================
