--------------------------- MODULE ObjectTransport ---------------------------
(***************************************************************************)
(* What a publication to R2 does on the wire: it lists the bucket page by  *)
(* page and asks for every object's identity with a pool of workers, it    *)
(* writes each object of its plan under a condition, in one request or in  *)
(* a multipart upload, it lists again, and it reads the result through the *)
(* public cache.  Requests and answers get lost, requests are carried out  *)
(* late and twice, the command is killed and run again, somebody else      *)
(* writes to the bucket, and the cache serves old copies for a while.      *)
(***************************************************************************)
EXTENDS Naturals, FiniteSets, Sequences, SequencesExt

CONSTANTS
  Key,            \* the object keys, numbers in the order of their names
  Present,        \* the keys the bucket holds when the publication begins
  Updates,        \* the keys of Present the plan replaces
  Large,          \* the keys whose object is written in parts
  Watched,        \* the keys clients read through the cache
  Workers,        \* r2InventoryHeadWorkers
  PageSize,       \* maxListPageKeys
  Attempts,       \* requests the SDK sends before it reports an error
  MaxCacheTTL,    \* max_cache_ttl of the target, in ticks
  Window,         \* publicTransientWindow, in ticks
  MaxBackoff,     \* the longest pause between two reads, in ticks
  MaxFaults,      \* bound: faults of the network
  MaxStops,       \* bound: commands killed
  MaxForeign      \* bound: writes of others

ASSUME TransportAssumption ==
  /\ Key \subseteq Nat \ {0} /\ IsFiniteSet(Key)
  /\ Present \subseteq Key /\ Updates \subseteq Present
  /\ Large \subseteq Key /\ Watched \subseteq Key
  /\ Workers \in Nat \ {0} /\ PageSize \in Nat \ {0} /\ Attempts \in Nat \ {0}
  /\ MaxCacheTTL \in Nat /\ Window \in Nat /\ MaxBackoff \in Nat \ {0}
  /\ MaxFaults \in Nat /\ MaxStops \in Nat /\ MaxForeign \in Nat

VARIABLES
  remote,    \* the bucket: the content of each key, "none" if there is none
  uploads,   \* the multipart uploads; one that is "lost" is open and nobody's
  net,       \* write requests that are still to be carried out
  cache,     \* the copies the public cache holds, with the time each has left
  pc,        \* the command
  list,      \* its listing
  check,     \* its public verification
  used       \* how much of each bound is used up

vars == <<remote, uploads, net, cache, pc, list, check, used>>

\* What is written is new; "other" is what somebody else wrote.  The identity
\* of an object (its ETag) is that of its content.
Content == {"none", "old", "new", "other"}

Plan == Updates \union (Key \ Present)

\* What an operation of the plan expects to find.
Base(k) == IF k \in Updates THEN "old" ELSE "none"

Idle == [at |-> "idle", done |-> {}, key |-> 0, upload |-> 0, request |-> 0, attempt |-> 0]

NoList ==
  [page |-> <<>>, from |-> 0, next |-> 0, seen |-> {}, previous |-> 0, before |-> <<>>, foreign |-> 0,
   jobs |-> <<>>, busy |-> {}, slots |-> <<>>, objects |-> <<>>, failed |-> FALSE]

NoCheck == [todo |-> {}, key |-> 0, stale |-> 0, transient |-> 0, backoff |-> 0, sleep |-> 0,
            slow |-> FALSE]

Fault == used.faults < MaxFaults /\ used' = [used EXCEPT !.faults = @ + 1]

\* The command ends with an error.  What it sent stays under way.
Failed == pc' = Idle /\ list' = NoList /\ check' = NoCheck

-----------------------------------------------------------------------------
(* List: the pages, and the pool of workers for each page *)

NewList == [NoList EXCEPT !.before = remote, !.foreign = used.foreign]

Start ==
  /\ pc.at = "idle"
  /\ pc' = [Idle EXCEPT !.at = "list"]
  /\ list' = NewList
  /\ UNCHANGED <<remote, uploads, net, cache, check, used>>

\* ListObjectsV2: the first keys after the token, in order.
PageAfter(token) ==
  LET keys == {k \in Key : k > token /\ remote[k] # "none"}
      Nth(n) == CHOOSE k \in keys : Cardinality({j \in keys : j <= k}) = n
      size == IF Cardinality(keys) < PageSize THEN Cardinality(keys) ELSE PageSize
  IN [objects |-> [n \in 1 .. size |-> [key |-> Nth(n), etag |-> remote[Nth(n)]]],
      next |-> IF Cardinality(keys) > size THEN Nth(size) ELSE 0]

EmptySlot == [result |-> "empty", job |-> 0]

PoolSize == IF Len(list.page) < Workers THEN Len(list.page) ELSE Workers

\* The jobs sent before any result is taken, one for each slot.
FirstJobs(size, length) == [n \in 1 .. size |-> n - 1]

\* headInventoryPage starts its workers on a page of the listing.
ReceivePage(token) ==
  LET page == PageAfter(token)
      size == IF Len(page.objects) < Workers THEN Len(page.objects) ELSE Workers
  IN /\ pc.at = "list"
     /\ pc' = [pc EXCEPT !.at = "pool"]
     /\ list' = [list EXCEPT !.page = page.objects, !.next = page.next, !.from = Len(list.objects),
                             !.jobs = FirstJobs(size, Len(page.objects)),
                             !.slots = [s \in 0 .. size - 1 |-> EmptySlot]]
     /\ UNCHANGED <<remote, uploads, net, cache, check>>

ListPage == ReceivePage(list.next) /\ UNCHANGED used

\* The answer is that to an earlier request for a page.
ListPageAgain ==
  /\ pc.at = "list"
  /\ Fault
  /\ \E token \in (list.seen \union {0}) \ {list.next} : ReceivePage(token)

\* The listing, or any of its HEADs, fails.
ListFails ==
  /\ pc.at = "list"
  /\ Fault
  /\ Failed
  /\ UNCHANGED <<remote, uploads, net, cache>>

TakeJob ==
  /\ pc.at = "pool"
  /\ list.jobs # <<>>
  /\ Cardinality(list.busy) < PoolSize
  /\ list' = [list EXCEPT !.busy = @ \union {Head(list.jobs)}, !.jobs = Tail(@)]
  /\ UNCHANGED <<remote, uploads, net, cache, pc, check, used>>

\* Mutant: order is checked within a page only.
PreviousInPage(n) == IF n > 0 THEN list.page[n].key ELSE 0

Previous(n) == IF n > 0 THEN list.page[n].key ELSE list.previous

\* headInventoryObject: the object listed n-th is in order, and HEAD agrees
\* with the listing.  Not when the page was given up already.
HeadEvidence(n) ==
  LET listed == list.page[n + 1]
  IN /\ ~list.failed
     /\ listed.key > Previous(n)
     /\ remote[listed.key] = listed.etag

\* A worker stores its result in the slot of its job, once the slot is empty.
StoreResult(n, ok) ==
  /\ pc.at = "pool"
  /\ n \in list.busy
  /\ list.slots[n % PoolSize] = EmptySlot
  /\ list' = [list EXCEPT !.busy = @ \ {n},
                          !.slots[n % PoolSize] = [result |-> IF ok THEN "ok" ELSE "error", job |-> n]]
  /\ UNCHANGED <<remote, uploads, net, cache, pc, check>>

HeadInventoryObject(n) == StoreResult(n, HeadEvidence(n)) /\ UNCHANGED used

HeadInventoryFails(n) == ~list.failed /\ StoreResult(n, FALSE) /\ Fault

\* Results are taken in list order; the slot is then free for another job.
TakeResult ==
  LET n == Len(list.objects) - list.from
      slot == n % PoolSize
  IN /\ pc.at = "pool"
     /\ ~list.failed
     /\ n < Len(list.page)
     /\ list.slots[slot] # EmptySlot
     /\ list' = IF list.slots[slot].result = "error" THEN [list EXCEPT !.failed = TRUE]
                ELSE [list EXCEPT !.objects = Append(@, list.page[list.slots[slot].job + 1]),
                                  !.slots[slot] = EmptySlot,
                                  !.jobs = IF n + PoolSize < Len(list.page)
                                           THEN Append(@, n + PoolSize) ELSE @]
     /\ UNCHANGED <<remote, uploads, net, cache, pc, check, used>>

\* publicationInventory: the last listing finds what was written.
InventoryMatches ==
  pc.done = Plan =>
    \A k \in Plan : \E n \in DOMAIN list.objects : list.objects[n] = [key |-> k, etag |-> "new"]

\* The page is returned once every worker has ended.  Then the next page, the
\* writes, or the verification.
ReturnPage ==
  /\ pc.at = "pool"
  /\ list.failed \/ Len(list.objects) - list.from = Len(list.page)
  /\ list.jobs = <<>> /\ list.busy = {}
  /\ \/ /\ list.failed \/ (list.next # 0 /\ list.next \in list.seen)
        /\ Failed
     \/ /\ ~list.failed /\ list.next # 0 /\ list.next \notin list.seen
        /\ pc' = [pc EXCEPT !.at = "list"]
        /\ list' = [list EXCEPT !.seen = @ \union {list.next}, !.slots = <<>>, !.page = <<>>,
                                !.previous = Last(list.page).key]
        /\ UNCHANGED check
     \/ /\ ~list.failed /\ list.next = 0
        /\ IF InventoryMatches
           THEN /\ pc' = [pc EXCEPT !.at = IF pc.done = Plan THEN "verify" ELSE "head"]
                /\ list' = NoList
                /\ check' = [NoCheck EXCEPT !.todo = pc.done]
           ELSE Failed
  /\ UNCHANGED <<remote, uploads, net, cache, used>>

-----------------------------------------------------------------------------
(* Put *)

\* Mutant: an upload in parts is completed without a condition.
PutConditionSingle(k) == IF k \in Large THEN "any" ELSE Base(k)

\* If-None-Match, or If-Match with the identity just read.
PutCondition(k) == Base(k)

Written(k) == [pc EXCEPT !.at = IF pc.done \union {k} = Plan THEN "list" ELSE "head",
                         !.done = @ \union {k}, !.key = 0, !.upload = 0, !.request = 0,
                         !.attempt = 0]

\* The list that follows the last write starts afresh.
PutDone(k) ==
  /\ pc' = Written(k)
  /\ list' = IF pc.done \union {k} = Plan THEN NewList ELSE list
  /\ UNCHANGED check

\* Mutant: an object that is there already is a conflict.
PutHeadStrict(k) ==
  /\ pc.at = "head"
  /\ k = Min(Plan \ pc.done)
  /\ IF remote[k] = Base(k)
     THEN /\ pc' = [pc EXCEPT !.at = IF k \in Large THEN "create" ELSE "send", !.key = k]
          /\ UNCHANGED <<list, check>>
     ELSE Failed
  /\ UNCHANGED <<remote, uploads, net, cache, used>>

\* Head: what is there already is left alone, and anything but what the plan
\* expects is refused.
PutHead(k) ==
  /\ pc.at = "head"
  /\ k = Min(Plan \ pc.done)
  /\ \/ remote[k] = "new" /\ PutDone(k)
     \/ /\ remote[k] = Base(k)
        /\ pc' = [pc EXCEPT !.at = IF k \in Large THEN "create" ELSE "send", !.key = k]
        /\ UNCHANGED <<list, check>>
     \/ remote[k] \notin {"new", Base(k)} /\ Failed
  /\ UNCHANGED <<remote, uploads, net, cache, used>>

\* CreateMultipartUpload.  An answer that is lost leaves an upload nobody
\* knows of, and the SDK asks again.
CreateUpload ==
  /\ pc.at = "create"
  /\ uploads' = Append(uploads, [key |-> pc.key, state |-> "open"])
  /\ pc' = [pc EXCEPT !.at = "parts", !.upload = Len(uploads')]
  /\ UNCHANGED <<remote, net, cache, list, check, used>>

CreateUnanswered ==
  /\ pc.at = "create"
  /\ Fault
  /\ uploads' = Append(uploads, [key |-> pc.key, state |-> "lost"])
  /\ \/ UNCHANGED pc
     \/ pc' = [pc EXCEPT !.at = "confirm"]
  /\ UNCHANGED <<remote, net, cache, list, check>>

UploadParts ==
  /\ pc.at = "parts"
  /\ pc' = [pc EXCEPT !.at = "send"]
  /\ UNCHANGED <<remote, uploads, net, cache, list, check, used>>

\* Mutant: the upload of a part that failed is left open.
PartFailsOpen ==
  /\ pc.at = "parts"
  /\ Fault
  /\ pc' = [pc EXCEPT !.at = "confirm"]
  /\ UNCHANGED <<remote, uploads, net, cache, list, check>>

\* A part cannot be read, stalls, or differs from the digest of the plan.
PartFails ==
  /\ pc.at = "parts"
  /\ Fault
  /\ pc' = [pc EXCEPT !.at = "abort"]
  /\ UNCHANGED <<remote, uploads, net, cache, list, check>>

\* PutObject or CompleteMultipartUpload.
Send ==
  LET id == Min((1 .. Cardinality(net) + 1) \ {r.id : r \in net})
  IN /\ pc.at = "send"
     /\ net' = net \union {[id |-> id, key |-> pc.key, upload |-> pc.upload,
                            condition |-> PutCondition(pc.key)]}
     /\ pc' = [pc EXCEPT !.at = "wait", !.request = id, !.attempt = @ + 1]
     /\ UNCHANGED <<remote, uploads, cache, list, check, used>>

AfterPutError == IF pc.upload = 0 THEN "confirm" ELSE "abort"

\* The bucket carries out a request: a condition that fails changes nothing,
\* nor does the completion of an upload that is not open.
Applies(r) ==
  /\ r.condition \in {"any", remote[r.key]}
  /\ r.upload # 0 => uploads[r.upload].state \in {"open", "lost"}

CarryOut(r) ==
  /\ net' = net \ {r}
  /\ IF Applies(r)
     THEN /\ remote' = [remote EXCEPT ![r.key] = "new"]
          /\ uploads' = IF r.upload = 0 THEN uploads ELSE [uploads EXCEPT ![r.upload].state = "completed"]
     ELSE UNCHANGED <<remote, uploads>>

\* The command is answered.
Answered(r) ==
  /\ pc.at = "wait" /\ pc.request = r.id
  /\ CarryOut(r)
  /\ pc' = [pc EXCEPT !.at = IF Applies(r) THEN "written" ELSE AfterPutError]
  /\ UNCHANGED <<cache, list, check, used>>

\* The command has given up on the request, or was killed.
CarriedOutLate(r) ==
  /\ ~(pc.at = "wait" /\ pc.request = r.id)
  /\ CarryOut(r)
  /\ UNCHANGED <<cache, pc, list, check, used>>

\* The request or its answer is lost.
Lost(r) ==
  /\ pc.at = "wait" /\ pc.request = r.id
  /\ Fault
  /\ CarryOut(r) \/ (net' = net \ {r} /\ UNCHANGED <<remote, uploads>>)
  /\ UNCHANGED <<cache, pc, list, check>>

\* No answer in time: the SDK sends the request again, or reports an error.
\* The request may still be under way.
TimeOut ==
  /\ pc.at = "wait"
  /\ IF \E r \in net : r.id = pc.request THEN Fault ELSE UNCHANGED used
  /\ pc' = [pc EXCEPT !.at = IF pc.attempt < Attempts THEN "send" ELSE AfterPutError]
  /\ UNCHANGED <<remote, uploads, net, cache, list, check>>

\* abortMultipart; it may fail as well.
AbortMultipart ==
  /\ pc.at = "abort"
  /\ uploads' = [uploads EXCEPT ![pc.upload].state = IF @ = "open" THEN "aborted" ELSE @]
  /\ pc' = [pc EXCEPT !.at = "confirm"]
  /\ UNCHANGED <<remote, net, cache, list, check, used>>

AbortFails ==
  /\ pc.at = "abort"
  /\ Fault
  /\ uploads' = [uploads EXCEPT ![pc.upload].state = IF @ = "open" THEN "lost" ELSE @]
  /\ pc' = [pc EXCEPT !.at = "confirm"]
  /\ UNCHANGED <<remote, net, cache, list, check>>

\* The second HEAD decides, after an error as after an answer.
PutConfirm ==
  /\ pc.at \in {"confirm", "written"}
  /\ IF remote[pc.key] = "new" THEN PutDone(pc.key) ELSE Failed
  /\ UNCHANGED <<remote, uploads, net, cache, used>>

\* A HEAD of Put fails.
HeadFails ==
  /\ pc.at \in {"head", "confirm", "written"}
  /\ Fault
  /\ Failed
  /\ UNCHANGED <<remote, uploads, net, cache>>

-----------------------------------------------------------------------------
(* Public verification *)

\* What the cache serves: its copy while that lasts, and the object after.
Served(k) == IF cache[k].left > 0 THEN cache[k].content ELSE remote[k]

Cached(k) ==
  [cache EXCEPT ![k] = IF k \notin Watched \/ cache[k].left > 0 THEN @
                       ELSE [content |-> remote[k], left |-> MaxCacheTTL]]

\* Mutant: old copies get the patience meant for failing requests.
StaleDeadlineShort == Window

\* cacheDeadline
StaleDeadline == MaxCacheTTL

VerifyPublic(k) ==
  /\ pc.at = "verify"
  /\ k = Min(check.todo)
  /\ pc' = [pc EXCEPT !.at = "get"]
  /\ check' = [check EXCEPT !.key = k, !.stale = StaleDeadline, !.transient = Window, !.backoff = 1,
                            !.slow = FALSE]
  /\ UNCHANGED <<remote, uploads, net, cache, list, used>>

\* An ordinary GET.  An exact answer is the only success.
GetPublic ==
  LET exact == Served(check.key) = "new"
      left == check.todo \ {check.key}
  IN /\ pc.at = "get"
     /\ cache' = Cached(check.key)
     /\ pc' = [pc EXCEPT !.at = CASE ~exact -> "stale" [] exact /\ left # {} -> "verify"
                                  [] OTHER -> "published"]
     /\ check' = IF exact THEN [NoCheck EXCEPT !.todo = left] ELSE check
     /\ UNCHANGED <<remote, uploads, net, list, used>>

GetFails ==
  /\ pc.at = "get"
  /\ Fault
  /\ pc' = [pc EXCEPT !.at = "transient"]
  /\ UNCHANGED <<remote, uploads, net, cache, list, check>>

\* A status that no waiting will change.
GetFatal ==
  /\ pc.at = "get"
  /\ Fault
  /\ Failed
  /\ UNCHANGED <<remote, uploads, net, cache>>

Deadline == IF pc.at = "transient" THEN check.transient ELSE check.stale

\* The deadline has passed: before the probe, or while it took its time.
Refuse ==
  /\ pc.at \in {"stale", "transient", "probed"}
  /\ Deadline = 0
  /\ Failed
  /\ UNCHANGED <<remote, uploads, net, cache, used>>

\* A GET that asks the cache to look again.  Its answer counts for nothing.
Probe ==
  /\ pc.at = "stale"
  /\ Deadline > 0
  /\ pc' = [pc EXCEPT !.at = "probed"]
  /\ \/ cache' = [cache EXCEPT ![check.key] = [content |-> remote[check.key], left |-> MaxCacheTTL]]
     \/ UNCHANGED cache
  /\ UNCHANGED <<remote, uploads, net, list, check, used>>

Pause ==
  /\ pc.at \in {"transient", "probed"}
  /\ Deadline > 0
  /\ pc' = [pc EXCEPT !.at = "sleep"]
  /\ check' = [check EXCEPT !.sleep = IF check.backoff < Deadline THEN check.backoff ELSE Deadline,
                            !.backoff = IF 2 * @ < MaxBackoff THEN 2 * @ ELSE MaxBackoff]
  /\ UNCHANGED <<remote, uploads, net, cache, list, used>>

Wake ==
  /\ pc.at = "sleep"
  /\ check.sleep = 0
  /\ pc' = [pc EXCEPT !.at = "get"]
  /\ UNCHANGED <<remote, uploads, net, cache, list, check, used>>

-----------------------------------------------------------------------------
(* Surroundings *)

Less(t) == IF t > 0 THEN t - 1 ELSE 0

\* A tick while a request is out means that the request was slow.
Tick ==
  /\ cache' = [k \in Key |-> IF cache[k].left > 1 THEN [cache[k] EXCEPT !.left = @ - 1]
                             ELSE [content |-> "none", left |-> 0]]
  /\ check' = [check EXCEPT !.stale = Less(@), !.transient = Less(@), !.sleep = Less(@),
                            !.slow = @ \/ pc.at \in {"stale", "transient", "probed"}]
  /\ UNCHANGED <<remote, uploads, net, pc, list, used>>

\* A client reads through the cache.
Read(k) ==
  /\ cache' = Cached(k)
  /\ UNCHANGED <<remote, uploads, net, pc, list, check, used>>

\* Somebody else writes an object, or removes one.
ForeignWrite(k, c) ==
  /\ used.foreign < MaxForeign
  /\ remote[k] # c
  /\ remote' = [remote EXCEPT ![k] = c]
  /\ used' = [used EXCEPT !.foreign = @ + 1]
  /\ UNCHANGED <<uploads, net, cache, pc, list, check>>

\* The command is killed; an upload it had open stays open.
Stop ==
  /\ pc.at \notin {"idle", "published"}
  /\ used.stops < MaxStops
  /\ used' = [used EXCEPT !.stops = @ + 1]
  /\ uploads' = [u \in DOMAIN uploads |->
                   IF uploads[u].state = "open" THEN [uploads[u] EXCEPT !.state = "lost"] ELSE uploads[u]]
  /\ Failed
  /\ UNCHANGED <<remote, net, cache>>

-----------------------------------------------------------------------------
Init ==
  /\ remote = [k \in Key |-> IF k \in Present THEN "old" ELSE "none"]
  /\ uploads = <<>>
  /\ net = {}
  /\ cache = [k \in Key |-> [content |-> "none", left |-> 0]]
  /\ pc = Idle
  /\ list = NoList
  /\ check = NoCheck
  /\ used = [faults |-> 0, stops |-> 0, foreign |-> 0]

ListStep ==
  \/ ListPage \/ TakeJob \/ TakeResult \/ ReturnPage
  \/ \E n \in list.busy : HeadInventoryObject(n)

PutStep ==
  \/ \E k \in Plan : PutHead(k)
  \/ CreateUpload \/ UploadParts \/ Send \/ AbortMultipart \/ PutConfirm
  \/ \E r \in net : Answered(r)
  \/ (~\E r \in net : r.id = pc.request) /\ TimeOut

VerifyStep ==
  \/ \E k \in check.todo : VerifyPublic(k)
  \/ GetPublic \/ Refuse \/ Probe \/ Pause \/ Wake

Trouble ==
  \/ ListPageAgain \/ ListFails \/ \E n \in list.busy : HeadInventoryFails(n)
  \/ CreateUnanswered \/ PartFails \/ AbortFails \/ HeadFails
  \/ \E r \in net : Lost(r) \/ CarriedOutLate(r)
  \/ (\E r \in net : r.id = pc.request) /\ TimeOut
  \/ GetFails \/ GetFatal
  \/ Stop

Next ==
  \/ Start \/ ListStep \/ PutStep \/ VerifyStep \/ Trouble \/ Tick
  \/ \E k \in Watched : Read(k)
  \/ \E k \in Key, c \in {"none", "other"} : ForeignWrite(k, c)

Spec == Init /\ [][Next]_vars

-----------------------------------------------------------------------------
(* Properties *)

Upload == [key : Key, state : {"open", "lost", "completed", "aborted"}]

Listed == [key : Key, etag : Content \ {"none"}]

\* Every variable has its type, and the pool never holds more than a job for
\* each of its slots.
TypeOK ==
  /\ remote \in [Key -> Content]
  /\ uploads \in Seq(Upload)
  /\ \A r \in net : /\ r.key \in Plan /\ r.upload \in 0 .. Len(uploads)
                     /\ r.condition \in Content \union {"any"}
  /\ cache \in [Key -> [content : Content, left : 0 .. MaxCacheTTL]]
  /\ pc.done \subseteq Plan
  /\ pc.upload \in 0 .. Len(uploads)
  /\ list.objects \in Seq(Listed)
  /\ Len(list.jobs) + Cardinality(list.busy) <= Workers
  /\ check.todo \subseteq Plan
  /\ check.sleep <= MaxBackoff

\* A worker never waits for a slot, so that giving up a page cannot hang, and
\* results are taken in the order of the listing whatever order they came in.
PoolSound ==
  pc.at = "pool" =>
    /\ \A n \in list.busy : list.slots[n % PoolSize] = EmptySlot
    /\ \A n \in 1 .. Len(list.objects) - list.from : list.objects[list.from + n] = list.page[n]

\* An upload the command opened is closed when the command is through with it,
\* whatever failed, unless the command was killed or the abort itself failed.
UploadsClosed == \A u \in DOMAIN uploads : uploads[u].state = "open" => pc.upload = u

\* Whatever is lost, late or fails, the pool of workers neither hangs nor mixes
\* up results, and no upload stays open behind the command that began it.
TransportSafe == TypeOK /\ PoolSound /\ UploadsClosed

\* No write request, late or repeated or from a command long dead, replaces
\* anything but what the plan expected to find.
NeverClobbers ==
  [][\A k \in Key : remote'[k] = "new" /\ remote[k] # "new" => k \in Plan /\ remote[k] = Base(k)]_remote

\* An inventory that is accepted names each object once and in order, also
\* when a page was answered twice, and misses or invents nothing that was
\* the same all the time.
InventoryExact ==
  [][ReturnPage /\ pc'.at \in {"head", "verify"} =>
       LET objects == list.objects
       IN /\ \A m, n \in DOMAIN objects : m < n => objects[m].key < objects[n].key
          /\ used.foreign = list.foreign =>
               \A k \in Key : remote[k] = list.before[k] =>
                 \A c \in Content \ {"none"} :
                   (\E n \in DOMAIN objects : objects[n] = [key |-> k, etag |-> c]) <=> remote[k] = c]_vars

\* An object that is in place is refused for an old copy only after the cache
\* was given all the time it may keep one, or if a request took so long that
\* the deadline passed meanwhile.
StaleRefused ==
  [][Refuse /\ pc.at # "transient" /\ used.foreign = 0 => check.slow]_vars

-----------------------------------------------------------------------------
(* Progress *)

\* Time passes, a command goes on, and one that failed is given again.
Fairness == WF_vars(Tick) /\ WF_vars(ListStep \/ PutStep \/ VerifyStep) /\ WF_vars(Start)

FairSpec == Spec /\ Fairness

\* As long as nobody else writes, a publication that is run again after every
\* failure succeeds, whatever was lost, late, repeated or killed before.
Converges == [](used.foreign = 0) => <>(pc.at = "published")
=============================================================================
