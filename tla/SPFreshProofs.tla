--------------------------- MODULE SPFreshProofs ---------------------------
(***************************************************************************)
(* Proofs about the update protocol for any vectors, threads, heads, locks *)
(* and settings: locks, lists and jobs leave nothing behind, postings keep *)
(* their bound, and no vector is lost while no merges run.                 *)
(***************************************************************************)
EXTENDS SPFresh, SequenceTheorems, FiniteSetTheorems, TLAPS

(***************************************************************************)
(* Types                                                                   *)
(***************************************************************************)

Entries == Vectors \X Nat

HeadRefs == HeadIds \cup {NoHead}

Jobs == [kind : {"split"}, head : HeadIds]
        \cup [kind : {"merge"}, head : HeadIds, disable : BOOLEAN]
        \cup [kind : {"reassign"}, entry : Entries, prev : HeadRefs]

ThreadStates ==
    [pc : PCs, vid : Vectors \cup {NoVector}, ver : Nat, prev : HeadRefs, todo : SUBSET HeadIds, threshold : Nat,
     head : HeadRefs, after : {"idle", "append", "next", "gc"}, reassign : BOOLEAN,
     clusters : [1..2 -> SUBSET Entries], ids : [1..2 -> HeadRefs], same : 0..2, k : 1..2,
     current : SUBSET Entries, survivor : HeadRefs]

\* The places of Append and Reassign, of Split, and of MergePostings.
MovePCs == {"next", "append", "sized", "reassign", "bump", "increment"}
SplitPCs == {"split", "newhead", "put", "unlink", "unlist", "collect"}
MergePCs == {"merge", "mergelock", "mergewith", "mergeother", "mergereassign"}

\* The thread has a vector to place.
Moves(r) == r.pc \in MovePCs \/ (r.pc \in SplitPCs /\ r.after \in {"append", "next"})

PlaceInv(r) ==
    /\ Moves(r) => r.vid \in Vectors
    /\ r.pc \in {"append", "sized"} \cup SplitPCs \cup MergePCs => r.head \in HeadIds
    /\ r.pc = "put" => r.ids[r.k] \in HeadIds
    /\ r.pc = "mergeother" => r.survivor \in HeadIds
    /\ r.pc = "mergereassign" => r.ids[1] \in HeadIds

\* What is stored, moved or listed has been added, and there is an end to it.
Added(es, map) == IsFiniteSet(es) /\ \A e \in es : map[e[1]] # UNKNOWN

ThreadOK(r, map) ==
    /\ PlaceInv(r)
    /\ Moves(r) => map[r.vid] # UNKNOWN
    /\ Added(r.clusters[1], map) /\ Added(r.clusters[2], map) /\ Added(r.current, map)

JobSet == {jobs[i] : i \in DOMAIN jobs}

JobOK(j, map) == j.kind = "reassign" => map[j.entry[1]] # UNKNOWN

Types ==
    /\ setting \in Settings
    /\ heads \subseteq keys /\ keys \subseteq HeadIds /\ nextHead \in 0..MaxHeads
    /\ posting \in [HeadIds -> SUBSET Entries]
    /\ headVector \in [HeadIds -> Vectors \cup {NoVector}]
    /\ version \in [Vectors -> Nat \cup {DELETED, UNKNOWN}]
    /\ jobs \in Seq(Jobs)
    /\ lock \in [0..(PoolSize - 1) -> Threads \cup {None}] /\ mergeLock \in Threads \cup {None}
    /\ splitList \subseteq HeadIds /\ mergeList \subseteq HeadIds
    /\ th \in [Threads -> ThreadStates]
    /\ \A t \in Threads : ThreadOK(th[t], version)
    /\ \A h \in HeadIds : Added(posting[h], version)
    /\ \A h \in HeadIds : headVector[h] # NoVector => version[headVector[h]] # UNKNOWN
    /\ \A j \in JobSet : JobOK(j, version)

(***************************************************************************)
(* Locks and lists                                                         *)
(***************************************************************************)

\* The thread holds the lock of its head.
Locks(r) ==
    \/ r.pc \in {"newhead", "put", "unlink", "mergewith", "mergeother"}
    \/ r.pc \in SplitPCs /\ r.after = "append"

LockInv ==
    /\ \A i \in 0..(PoolSize - 1), t \in Threads : lock[i] = t <=> Locks(th[t]) /\ Hash(th[t].head) = i
    /\ \A t \in Threads : mergeLock = t <=> th[t].pc \in {"mergelock", "mergewith", "mergeother"}
    /\ \A t \in Threads : th[t].pc \in SplitPCs /\ th[t].after = "append" => th[t].reassign

\* Ids that a thread refers to, apart from one that it has just taken.
Refers(r) == r.todo \cup {r.prev, r.survivor}
             \cup (IF r.pc = "gc" THEN {} ELSE {r.head})
             \cup {r.ids[j] : j \in {i \in 1..2 : r.pc = "put" => i # r.k}}

JobRef(j) == IF j.kind = "reassign" THEN j.prev ELSE j.head

Used == heads \cup splitList \cup mergeList \cup {JobRef(j) : j \in JobSet} \cup UNION {Refers(th[t]) : t \in Threads}

\* The id that NewHead has taken.
Pending(t) == th[t].ids[th[t].k]

\* Nothing refers to it before PutNewPosting.
FreshInv ==
    /\ Used \subseteq -1..(nextHead - 1)
    /\ \A u \in Threads : th[u].pc = "put" =>
         /\ Pending(u) \in 0..(nextHead - 1) /\ Pending(u) \notin Used
         /\ \A t \in Threads \ {u} : th[t].pc = "put" => Pending(t) # Pending(u)

Splitting(r, h) == r.pc \in SplitPCs \ {"collect"} /\ r.head = h /\ r.after = "idle"
Merging(r, h) == r.pc \in MergePCs /\ r.head = h

\* A listed head has a job, in the queue or in the hands of a worker.
SplitComing(h) == SplitJob(h) \in JobSet \/ \E t \in Threads : Splitting(th[t], h)
MergeComing(h) ==
    MergeJob(h, TRUE) \in JobSet \/ MergeJob(h, FALSE) \in JobSet \/ \E t \in Threads : Merging(th[t], h)

ListInv ==
    /\ keys = heads
    /\ \A h \in splitList \cap heads : SplitComing(h)
    /\ \A h \in mergeList \cap heads : MergeComing(h)

(***************************************************************************)
(* Bounds                                                                  *)
(***************************************************************************)

NoMerges == setting.searches = 0

Bound == Limit + Buffer + IF NoMerges THEN 0 ELSE MergeThreshold

\* Every merge follows from a search that has found a short posting.
MergeFree ==
    NoMerges => /\ mergeList = {} /\ searches = 0
                /\ \A t \in Threads : th[t].pc \notin MergePCs
                /\ \A j \in JobSet : j.kind # "merge"

\* What a thread will write is not too long, p being the postings: a cluster that
\* keeps the head is part of the head's posting while the lock is held.
Fine(r, p) ==
    /\ Cardinality(r.clusters[1]) <= Bound /\ Cardinality(r.clusters[2]) <= Bound
    /\ r.pc \in {"mergewith", "mergeother"} => Cardinality(r.current) <= MergeThreshold
    /\ r.pc = "mergeother" => Cardinality(p[r.survivor]) <= Limit + Buffer
    /\ r.pc \in {"newhead", "put"} /\ r.same >= r.k => r.clusters[r.same] \subseteq p[r.head]

BoundInv ==
    /\ MergeFree
    /\ \A h \in HeadIds : Cardinality(posting[h]) <= Bound
    /\ \A t \in Threads : Fine(th[t], posting)

(***************************************************************************)
(* No vector is lost                                                       *)
(***************************************************************************)

\* The split will overwrite or drop the posting of its head.
Overwrites(r) ==
    \/ r.pc \in {"newhead", "put"} /\ (r.same = 0 \/ r.same >= r.k)
    \/ r.pc = "unlink" /\ r.same = 0

Solid(h) == h \in heads /\ \A t \in Threads : Overwrites(th[t]) => th[t].head # h

\* The split has not written the entry yet.
Holds(r, e) == r.pc \in {"newhead", "put"} /\ \E j \in 1..2 : j >= r.k /\ e \in r.clusters[j]

\* The thread will append the entry, or has a new version to make of it.
Bears(r, e) ==
    /\ <<r.vid, r.ver>> = e
    /\ \/ r.pc = "append" \/ (r.pc \in SplitPCs /\ r.after = "append")
       \/ /\ r.todo # {}
          /\ r.pc \in {"next", "sized", "bump", "increment"} \/ (r.pc \in SplitPCs /\ r.after = "next")
       \/ r.pc = "reassign" /\ r.prev \notin heads

\* The thread has made the vector a head, or will reassign the vector of the head that went.
Crowns(r, v) == r.pc = "put" /\ headVector[r.ids[r.k]] = v
Orphans(r, v) == r.pc \in {"unlist", "collect"} /\ r.same = 0 /\ r.reassign /\ headVector[r.head] = v

Safe(v, e) ==
    \/ \E h \in heads : Solid(h) /\ e \in posting[h]
    \/ \E t \in Threads : Holds(th[t], e) \/ Bears(th[t], e)
    \/ \E j \in JobSet : j.kind = "reassign" /\ j.entry = e /\ j.prev \notin heads
    \/ /\ ExcludeHead
       /\ \/ \E h \in heads : headVector[h] = v
          \/ \E t \in Threads : Crowns(th[t], v) \/ Orphans(th[t], v)

\* Without merges, and without a ForceGC that splits the heads that are vectors.
NoGC == ExcludeHead /\ setting.collections = 0
Calm == NoMerges /\ ~setting.sameVectors /\ (ExcludeHead => setting.collections = 0)

\* A vector that is about to be placed has heads selected for it; a head that is
\* being split is in the index until Unlink; Split reassigns unless ForceGC calls it.
KeepsCalm(r, hs) ==
    /\ r.pc \in {"bump", "increment"} => r.todo # {}
    /\ r.pc \in {"newhead", "put", "unlink"} => r.head \in hs
    /\ NoGC => r.pc # "gc" /\ r.after # "gc" /\ (r.pc \in SplitPCs => r.reassign)

CalmInv == (NoGC => collections = 0) /\ \A t \in Threads : KeepsCalm(th[t], heads)

SafeInv == Calm => \A v \in Vectors : version[v] >= 0 => Safe(v, <<v, version[v]>>)

(***************************************************************************)
(* What the actions do                                                     *)
(***************************************************************************)

SameVector(q, r) == q.vid = r.vid /\ q.ver = r.ver /\ q.prev = r.prev
SameCall(q, r) == q.head = r.head /\ q.after = r.after /\ q.reassign = r.reassign
SameSplit(q, r) == q.clusters = r.clusters /\ q.ids = r.ids /\ q.same = r.same /\ q.k = r.k
SameMerge(q, r) == q.current = r.current /\ q.survivor = r.survivor

\* Only the thread t moves, and its state has its type.
Moved(t) == th' \in [Threads -> ThreadStates] /\ \A u \in Threads : u # t => th'[u] = th[u]

\* Only the place of the thread changes.
GoesTo(q, r, pc) ==
    /\ q.pc = pc /\ q.todo = r.todo /\ SameVector(q, r) /\ SameCall(q, r) /\ SameSplit(q, r) /\ SameMerge(q, r)

LEMMA ThreadBecomes ==
    ASSUME NEW t \in Threads, th \in [Threads -> ThreadStates], NEW r \in ThreadStates, th' = [th EXCEPT ![t] = r]
    PROVE  Moved(t) /\ th'[t] = r
BY DEF Moved

LEMMA IdleFields ==
    /\ Idle \in ThreadStates
    /\ Idle.pc = "idle" /\ Idle.vid = NoVector /\ Idle.ver = 0 /\ Idle.prev = NoHead /\ Idle.todo = {}
    /\ Idle.head = NoHead /\ Idle.after = "idle" /\ Idle.reassign = TRUE
    /\ Idle.clusters = <<{}, {}>> /\ Idle.clusters[1] = {} /\ Idle.clusters[2] = {}
    /\ Idle.ids = <<NoHead, NoHead>> /\ Idle.ids[1] = NoHead /\ Idle.ids[2] = NoHead
    /\ Idle.same = 0 /\ Idle.k = 1 /\ Idle.current = {} /\ Idle.survivor = NoHead
BY DEF ThreadStates, PCs, HeadRefs, Idle

LEMMA GotoEffect ==
    ASSUME Types, NEW t \in Threads, NEW pc \in PCs, Goto(t, pc)
    PROVE  Moved(t) /\ GoesTo(th'[t], th[t], pc)
<1> DEFINE q == [th[t] EXCEPT !.pc = pc]
<1>1. th \in [Threads -> ThreadStates] /\ th[t] \in ThreadStates
  BY DEF Types
<1>2. q \in ThreadStates /\ GoesTo(q, th[t], pc)
  BY <1>1 DEF ThreadStates, GoesTo, SameVector, SameCall, SameSplit, SameMerge
<1>3. th' = [th EXCEPT ![t] = q]
  BY <1>1 DEF Goto
<1> HIDE DEF q
<1> QED
  BY <1>1, <1>2, <1>3, ThreadBecomes

LEMMA FinishEffect ==
    ASSUME Types, NEW t \in Threads, Finish(t)
    PROVE  Moved(t) /\ th'[t] = Idle
<1>1. th \in [Threads -> ThreadStates] /\ th' = [th EXCEPT ![t] = Idle] /\ Idle \in ThreadStates
  BY IdleFields DEF Types, Finish
<1> QED
  BY <1>1, ThreadBecomes

\* A thread that starts afresh.
LEMMA AddIndexEffect ==
    ASSUME Types, NEW t \in Threads, NEW v \in Vectors, AddIndex(t, v)
    PROVE  /\ th[t].pc = "idle" /\ version[v] = UNKNOWN /\ version' = [version EXCEPT ![v] = 0]
           /\ Moved(t)
           /\ th'[t].pc = "next" /\ th'[t].vid = v /\ th'[t].ver = 0 /\ th'[t].todo \in SUBSET heads /\ th'[t].todo # {}
           /\ th'[t].prev = NoHead /\ SameCall(th'[t], Idle) /\ SameSplit(th'[t], Idle) /\ SameMerge(th'[t], Idle)
           /\ UNCHANGED <<heads, nextHead, headVector, posting, keys, jobs, lock, mergeLock, splitList, mergeList,
                          setting, searches, collections>>
<1>1. PICK S \in Selections : th' = [th EXCEPT ![t] = [Idle EXCEPT !.pc = "next", !.vid = v, !.todo = S]]
  BY DEF AddIndex
<1> DEFINE q == [Idle EXCEPT !.pc = "next", !.vid = v, !.todo = S]
<1>2. th \in [Threads -> ThreadStates] /\ S \in SUBSET heads /\ S # {} /\ S \in SUBSET HeadIds
  BY DEF Types, Selections, UpTo
<1>3. /\ q \in ThreadStates /\ q.pc = "next" /\ q.vid = v /\ q.ver = 0 /\ q.todo = S /\ q.prev = NoHead
      /\ SameCall(q, Idle) /\ SameSplit(q, Idle) /\ SameMerge(q, Idle)
  <2>1. Idle \in ThreadStates
    BY IdleFields
  <2>2. q \in ThreadStates
    BY <1>2, <2>1 DEF ThreadStates, PCs
  <2>3. q.pc = "next" /\ q.vid = v /\ q.ver = Idle.ver /\ q.todo = S /\ q.prev = Idle.prev
    BY ONLY <2>1 DEF ThreadStates, q
  <2>4. SameCall(q, Idle) /\ SameSplit(q, Idle) /\ SameMerge(q, Idle)
    BY ONLY <2>1 DEF ThreadStates, q, SameCall, SameSplit, SameMerge
  <2> QED
    BY <2>2, <2>3, <2>4, IdleFields
<1>4. th' = [th EXCEPT ![t] = q]
  BY <1>1
<1> HIDE DEF q
<1>5. Moved(t) /\ th'[t] = q
  BY <1>2, <1>3, <1>4, ThreadBecomes
<1> QED
  BY <1>2, <1>3, <1>5 DEF AddIndex, index, store, lists, budgets

LEMMA ForceGCEffect ==
    ASSUME Types, NEW t \in Threads, ForceGC(t)
    PROVE  /\ th[t].pc = "idle" /\ collections < setting.collections /\ collections' = collections + 1
           /\ Moved(t) /\ GoesTo(th'[t], Idle, "gc")
           /\ UNCHANGED <<heads, nextHead, headVector, posting, keys, version, jobs, lock, mergeLock, splitList, mergeList,
                          setting, searches>>
<1> DEFINE q == [Idle EXCEPT !.pc = "gc"]
<1>1. th \in [Threads -> ThreadStates]
  BY DEF Types
<1>2. q \in ThreadStates /\ GoesTo(q, Idle, "gc")
  BY IdleFields DEF ThreadStates, PCs, GoesTo, SameVector, SameCall, SameSplit, SameMerge
<1>3. th' = [th EXCEPT ![t] = q]
  BY DEF ForceGC
<1> HIDE DEF q
<1>4. Moved(t) /\ th'[t] = q
  BY <1>1, <1>2, <1>3, ThreadBecomes
<1> QED
  BY <1>2, <1>4 DEF ForceGC, index, store, lists, budgets

LEMMA CollectNextEffect ==
    ASSUME Types, NEW t \in Threads, CollectNext(t)
    PROVE  /\ th[t].pc = "gc" /\ Moved(t)
           /\ \/ th'[t] = Idle
              \/ /\ th'[t].head = th[t].head + 1 /\ th'[t].head < nextHead /\ th'[t].head \in HeadIds
                 /\ th'[t].after = "gc" /\ th'[t].reassign = FALSE
                 /\ th'[t].pc = IF th'[t].head \in heads THEN "split" ELSE "gc"
                 /\ th'[t].todo = {} /\ SameVector(th'[t], Idle) /\ SameSplit(th'[t], Idle) /\ SameMerge(th'[t], Idle)
           /\ UNCHANGED <<heads, nextHead, headVector, posting, keys, version, jobs, lock, mergeLock, splitList, mergeList,
                          setting, searches, collections>>
<1> DEFINE i == th[t].head + 1
           q == [Idle EXCEPT !.head = i, !.after = "gc", !.reassign = FALSE, !.pc = IF i \in heads THEN "split" ELSE "gc"]
<1>1. /\ th \in [Threads -> ThreadStates] /\ th[t] \in ThreadStates /\ nextHead \in 0..MaxHeads /\ MaxHeads \in Nat
      /\ th[t].head \in -1..(MaxHeads - 1)
  BY SMTT(20), BoundAssumption DEF Types, ThreadStates, HeadRefs, HeadIds, NoHead
<1>2. th' = [th EXCEPT ![t] = IF i >= nextHead THEN Idle ELSE q]
  BY DEF CollectNext
<1>3. CASE i >= nextHead
  <2>1. Finish(t)
    BY <1>2, <1>3 DEF Finish
  <2> QED
    BY <2>1, FinishEffect DEF CollectNext, index, store, lists, budgets
<1>4. CASE ~(i >= nextHead)
  <2>1. i \in HeadIds /\ i < nextHead
    BY <1>1, <1>4 DEF HeadIds
  <2> HIDE DEF i
  <2>2. /\ q \in ThreadStates /\ q.head = i /\ q.after = "gc" /\ q.reassign = FALSE
        /\ q.pc = IF i \in heads THEN "split" ELSE "gc"
        /\ q.todo = {} /\ SameVector(q, Idle) /\ SameSplit(q, Idle) /\ SameMerge(q, Idle)
    <3>1. Idle \in ThreadStates
      BY IdleFields
    <3>2. i \in HeadRefs /\ (IF i \in heads THEN "split" ELSE "gc") \in PCs
      BY <2>1 DEF HeadRefs, PCs
    <3>3. q \in ThreadStates
      BY ONLY <3>1, <3>2 DEF ThreadStates, q
    <3>4. /\ q.head = i /\ q.after = "gc" /\ q.reassign = FALSE /\ q.todo = Idle.todo
          /\ q.pc = IF i \in heads THEN "split" ELSE "gc"
      BY ONLY <3>1 DEF ThreadStates, q
    <3>5. SameVector(q, Idle) /\ SameSplit(q, Idle) /\ SameMerge(q, Idle)
      BY ONLY <3>1 DEF ThreadStates, q, SameVector, SameSplit, SameMerge
    <3> QED
      BY <3>3, <3>4, <3>5, IdleFields
  <2>3. th' = [th EXCEPT ![t] = q]
    BY <1>2, <1>4
  <2> HIDE DEF q
  <2>4. Moved(t) /\ th'[t] = q
    BY <1>1, <2>2, <2>3, ThreadBecomes
  <2> QED
    BY <2>1, <2>2, <2>4 DEF CollectNext, index, store, lists, budgets, i
<1> QED
  BY <1>3, <1>4

\* What the threads share does not change.
StillAll == UNCHANGED <<heads, nextHead, headVector, posting, keys, version, jobs, lock, mergeLock, splitList, mergeList,
                        setting, searches, collections>>

LEMMA DeleteIndexEffect ==
    ASSUME NEW t \in Threads, NEW v \in Vectors, DeleteIndex(t, v)
    PROVE  /\ version[v] >= 0 /\ version' = [version EXCEPT ![v] = DELETED]
           /\ UNCHANGED <<heads, nextHead, headVector, posting, keys, jobs, lock, mergeLock, splitList, mergeList,
                          th, setting, searches, collections>>
BY DEF DeleteIndex, index, store, lists, budgets

LEMMA SearchIndexEffect ==
    ASSUME NEW t \in Threads, NEW h \in HeadIds, SearchIndex(t, h)
    PROVE  /\ searches < setting.searches /\ searches' = searches + 1
           /\ h \in heads /\ h \notin mergeList
           /\ mergeList' = mergeList \cup {h} /\ jobs' = Append(jobs, MergeJob(h, FALSE))
           /\ UNCHANGED <<heads, nextHead, headVector, posting, keys, version, lock, mergeLock, splitList,
                          th, setting, collections>>
BY DEF SearchIndex, index, store

LEMMA HeadOfJobs ==
    ASSUME jobs \in Seq(Jobs), jobs # <<>>
    PROVE  Head(jobs) \in Jobs /\ Head(jobs) \in JobSet
<1>1. Len(jobs) \in Nat \ {0} /\ DOMAIN jobs = 1..Len(jobs)
  BY EmptySeq
<1>2. Head(jobs) = jobs[1] /\ 1 \in DOMAIN jobs
  BY <1>1
<1> QED
  BY <1>2 DEF JobSet

LEMMA JobKinds ==
    ASSUME NEW j \in Jobs
    PROVE  /\ j.kind \in {"split", "merge", "reassign"}
           /\ j.kind = "split" => j.head \in HeadIds /\ j = SplitJob(j.head)
           /\ j.kind = "merge" => j.head \in HeadIds /\ j.disable \in BOOLEAN /\ j = MergeJob(j.head, j.disable)
           /\ j.kind = "reassign" => j.entry \in Entries /\ j.prev \in HeadRefs /\ j = ReassignJob(j.entry, j.prev)
BY DEF Jobs, SplitJob, MergeJob, ReassignJob

LEMMA TakeJobEffect ==
    ASSUME Types, NEW t \in Threads, TakeJob(t)
    PROVE  /\ th[t].pc = "idle" /\ jobs # <<>> /\ jobs' = Tail(jobs) /\ Moved(t)
           /\ th'[t].todo = {} /\ SameSplit(th'[t], Idle) /\ SameMerge(th'[t], Idle) /\ th'[t].after = "idle"
           /\ LET j == Head(jobs) IN
                \/ /\ j.kind = "split" /\ th'[t].pc = "split" /\ th'[t].head = j.head /\ th'[t].reassign
                   /\ SameVector(th'[t], Idle)
                \/ /\ j.kind = "merge" /\ th'[t].pc = "merge" /\ th'[t].head = j.head
                   /\ SameVector(th'[t], Idle)
                \/ /\ j.kind = "reassign" /\ th'[t].pc = "reassign" /\ th'[t].vid = j.entry[1] /\ th'[t].ver = j.entry[2]
                   /\ th'[t].prev = j.prev /\ th'[t].head = NoHead /\ th'[t].reassign
           /\ UNCHANGED <<heads, nextHead, headVector, posting, keys, version, lock, mergeLock, splitList, mergeList,
                          setting, searches, collections>>
<1> DEFINE j == Head(jobs)
           q == CASE j.kind = "split" -> [Idle EXCEPT !.pc = "split", !.head = j.head]
                  [] j.kind = "merge" -> [Idle EXCEPT !.pc = "merge", !.head = j.head, !.reassign = ~j.disable]
                  [] j.kind = "reassign" -> [Idle EXCEPT !.pc = "reassign", !.vid = j.entry[1], !.ver = j.entry[2],
                                                         !.prev = j.prev, !.threshold = ReassignThreshold]
<1>1. th \in [Threads -> ThreadStates] /\ j \in Jobs
  BY HeadOfJobs DEF Types, TakeJob
<1>2. th' = [th EXCEPT ![t] = q]
  BY DEF TakeJob
<1> HIDE DEF j
<1>3. /\ q \in ThreadStates /\ q.todo = {} /\ SameSplit(q, Idle) /\ SameMerge(q, Idle) /\ q.after = "idle"
      /\ \/ j.kind = "split" /\ q.pc = "split" /\ q.head = j.head /\ q.reassign /\ SameVector(q, Idle)
         \/ j.kind = "merge" /\ q.pc = "merge" /\ q.head = j.head /\ SameVector(q, Idle)
         \/ /\ j.kind = "reassign" /\ q.pc = "reassign" /\ q.vid = j.entry[1] /\ q.ver = j.entry[2]
            /\ q.prev = j.prev /\ q.head = NoHead /\ q.reassign
  <2>1. CASE j.kind = "split"
    <3>1. q = [Idle EXCEPT !.pc = "split", !.head = j.head]
      BY <2>1
    <3>2. j.head \in HeadIds
      BY <1>1, <2>1, JobKinds
    <3> QED
      BY <3>1, <3>2, <2>1, IdleFields DEF ThreadStates, PCs, HeadRefs, SameVector, SameSplit, SameMerge
  <2>2. CASE j.kind = "merge"
    <3>1. q = [Idle EXCEPT !.pc = "merge", !.head = j.head, !.reassign = ~j.disable]
      BY <2>2
    <3>2. j.head \in HeadIds
      BY <1>1, <2>2, JobKinds
    <3> QED
      BY <3>1, <3>2, <2>2, IdleFields DEF ThreadStates, PCs, HeadRefs, SameVector, SameSplit, SameMerge
  <2>3. CASE j.kind = "reassign"
    <3>1. q = [Idle EXCEPT !.pc = "reassign", !.vid = j.entry[1], !.ver = j.entry[2],
                           !.prev = j.prev, !.threshold = ReassignThreshold]
      BY <2>3
    <3>2. j.entry[1] \in Vectors /\ j.entry[2] \in Nat /\ j.prev \in HeadRefs /\ ReassignThreshold \in Nat
      BY <1>1, <2>3, JobKinds, BoundAssumption DEF Entries
    <3> QED
      BY <3>1, <3>2, <2>3, IdleFields DEF ThreadStates, PCs, HeadRefs, SameVector, SameSplit, SameMerge
  <2> QED
    BY <1>1, <2>1, <2>2, <2>3, JobKinds
<1> HIDE DEF q
<1>4. Moved(t) /\ th'[t] = q
  BY <1>1, <1>2, <1>3, ThreadBecomes
<1> QED
  BY <1>3, <1>4 DEF TakeJob, index, store, lists, budgets, j

\* Append and Reassign.
LEMMA NextSelectionEffect ==
    ASSUME Types, NEW t \in Threads, NextSelection(t)
    PROVE  /\ th[t].pc = "next" /\ Moved(t) /\ StillAll
           /\ \/ (th[t].todo = {} \/ version[th[t].vid] # th[t].ver) /\ th'[t] = Idle
              \/ /\ th'[t].pc = "append" /\ th'[t].head \in th[t].todo /\ th'[t].todo \in SUBSET th[t].todo
                 /\ th'[t].after = th[t].after /\ th'[t].reassign = th[t].reassign
                 /\ SameVector(th'[t], th[t]) /\ SameSplit(th'[t], th[t]) /\ SameMerge(th'[t], th[t])
<1>1. th[t].pc = "next" /\ StillAll
  BY DEF NextSelection, StillAll, index, store, lists, budgets
<1>2. CASE th[t].todo = {} \/ (th[t].threshold > 0 /\ version[th[t].vid] # th[t].ver)
  <2>1. Finish(t)
    BY <1>2 DEF NextSelection
  <2> QED
    BY <1>1, <1>2, <2>1, FinishEffect
<1>3. CASE ~(th[t].todo = {} \/ (th[t].threshold > 0 /\ version[th[t].vid] # th[t].ver))
  <2>1. PICK h \in th[t].todo : th' = [th EXCEPT ![t].pc = "append", ![t].head = h, ![t].todo = @ \ {h}]
    BY <1>3 DEF NextSelection
  <2> DEFINE q == [th[t] EXCEPT !.pc = "append", !.head = h, !.todo = th[t].todo \ {h}]
  <2>2. th \in [Threads -> ThreadStates] /\ th[t] \in ThreadStates /\ th[t].todo \in SUBSET HeadIds
    BY DEF Types, ThreadStates
  <2>3. /\ q \in ThreadStates
        /\ q.pc = "append" /\ q.head = h /\ q.todo \in SUBSET th[t].todo
        /\ q.after = th[t].after /\ q.reassign = th[t].reassign
        /\ SameVector(q, th[t]) /\ SameSplit(q, th[t]) /\ SameMerge(q, th[t])
    BY <2>2 DEF ThreadStates, PCs, HeadRefs, SameVector, SameSplit, SameMerge
  <2>4. th' = [th EXCEPT ![t] = q]
    BY <2>1, <2>2
  <2> HIDE DEF q
  <2>5. Moved(t) /\ th'[t] = q
    BY <2>2, <2>3, <2>4, ThreadBecomes
  <2> QED
    BY <1>1, <2>3, <2>5
<1> QED
  BY <1>2, <1>3

LEMMA HeadMissEffect ==
    ASSUME Types, NEW t \in Threads, HeadMiss(t)
    PROVE  /\ th[t].pc = "append" /\ th[t].head \notin heads /\ Moved(t) /\ GoesTo(th'[t], th[t], "next")
           /\ jobs' = IF version[th[t].vid] = th[t].ver
                        THEN Append(jobs, ReassignJob(<<th[t].vid, th[t].ver>>, th[t].head)) ELSE jobs
           /\ UNCHANGED <<heads, nextHead, headVector, posting, keys, version, lock, mergeLock, splitList, mergeList,
                          setting, searches, collections>>
<1>1. "next" \in PCs /\ Goto(t, "next")
  BY DEF HeadMiss, PCs
<1> QED
  BY <1>1, GotoEffect DEF HeadMiss, index, store, lists, budgets

\* A thread calls Split and will be back at the place after.
CallsSplit(q, r, after) ==
    /\ q.pc = "split" /\ q.head = r.head /\ q.after = after /\ q.reassign
    /\ q.todo = r.todo /\ SameVector(q, r) /\ SameSplit(q, r) /\ SameMerge(q, r)

LEMMA CallEffect ==
    ASSUME Types, NEW t \in Threads, NEW after \in {"append", "next"},
           th' = [th EXCEPT ![t].pc = "split", ![t].after = after, ![t].reassign = TRUE]
    PROVE  Moved(t) /\ CallsSplit(th'[t], th[t], after)
<1> DEFINE q == [th[t] EXCEPT !.pc = "split", !.after = after, !.reassign = TRUE]
<1>1. th \in [Threads -> ThreadStates] /\ th[t] \in ThreadStates
  BY DEF Types
<1>2. q \in ThreadStates /\ CallsSplit(q, th[t], after)
  BY <1>1 DEF ThreadStates, PCs, CallsSplit, SameVector, SameSplit, SameMerge
<1>3. th' = [th EXCEPT ![t] = q]
  BY <1>1
<1> HIDE DEF q
<1> QED
  BY <1>1, <1>2, <1>3, ThreadBecomes

LEMMA AppendPostingEffect ==
    ASSUME Types, NEW t \in Threads, AppendPosting(t)
    PROVE  /\ th[t].pc = "append" /\ th[t].head \in heads /\ Free(th[t].head) /\ Moved(t)
           /\ \/ /\ Size(th[t].head) + 1 > Limit + Buffer
                 /\ Acquire(t, th[t].head) /\ CallsSplit(th'[t], th[t], "append") /\ posting' = posting
              \/ /\ ~(Size(th[t].head) + 1 > Limit + Buffer)
                 /\ posting' = [posting EXCEPT ![th[t].head] = @ \cup {<<th[t].vid, th[t].ver>>}]
                 /\ GoesTo(th'[t], th[t], "sized") /\ lock' = lock
           /\ UNCHANGED <<heads, nextHead, headVector, keys, version, jobs, mergeLock, splitList, mergeList,
                          setting, searches, collections>>
<1>1. /\ th[t].pc = "append" /\ th[t].head \in heads /\ Free(th[t].head)
      /\ UNCHANGED <<heads, nextHead, headVector, keys, version, jobs, mergeLock, splitList, mergeList,
                     setting, searches, collections>>
  BY DEF AppendPosting, index, lists, budgets
<1>2. CASE Size(th[t].head) + 1 > Limit + Buffer
  <2>1. Acquire(t, th[t].head) /\ posting' = posting
        /\ th' = [th EXCEPT ![t].pc = "split", ![t].after = "append", ![t].reassign = TRUE]
    BY <1>2 DEF AppendPosting
  <2>2. Moved(t) /\ CallsSplit(th'[t], th[t], "append")
    BY <2>1, CallEffect
  <2> QED
    BY <1>1, <1>2, <2>1, <2>2
<1>3. CASE ~(Size(th[t].head) + 1 > Limit + Buffer)
  <2>1. /\ posting' = [posting EXCEPT ![th[t].head] = @ \cup {<<th[t].vid, th[t].ver>>}]
        /\ Goto(t, "sized") /\ lock' = lock /\ "sized" \in PCs
    BY <1>3 DEF AppendPosting, PCs
  <2>2. Moved(t) /\ GoesTo(th'[t], th[t], "sized")
    BY <2>1, GotoEffect
  <2> QED
    BY <1>1, <1>3, <2>1, <2>2
<1> QED
  BY <1>2, <1>3

LEMMA CheckSizeEffect ==
    ASSUME Types, NEW t \in Threads, CheckSize(t)
    PROVE  /\ th[t].pc = "sized" /\ Moved(t)
           /\ \/ CallsSplit(th'[t], th[t], "next") /\ UNCHANGED <<jobs, splitList>>
              \/ GoesTo(th'[t], th[t], "next") /\ UNCHANGED <<jobs, splitList>>
              \/ /\ GoesTo(th'[t], th[t], "next") /\ th[t].head \notin splitList
                 /\ splitList' = splitList \cup {th[t].head} /\ jobs' = Append(jobs, SplitJob(th[t].head))
           /\ UNCHANGED <<heads, nextHead, headVector, posting, keys, version, lock, mergeLock, mergeList,
                          setting, searches, collections>>
<1> DEFINE long == Size(th[t].head) > Limit + th[t].threshold
<1>1. /\ th[t].pc = "sized"
      /\ UNCHANGED <<heads, nextHead, headVector, posting, keys, version, lock, mergeLock, mergeList,
                     setting, searches, collections>>
  BY DEF CheckSize, index, store, budgets
<1>2. CASE long /\ th[t].threshold > 0
  <2>1. /\ th' = [th EXCEPT ![t].pc = "split", ![t].after = "next", ![t].reassign = TRUE]
        /\ UNCHANGED <<jobs, splitList>>
    BY <1>2 DEF CheckSize
  <2>2. Moved(t) /\ CallsSplit(th'[t], th[t], "next")
    BY <2>1, CallEffect
  <2> QED
    BY <1>1, <2>1, <2>2
<1>3. CASE ~(long /\ th[t].threshold > 0)
  <2>1. /\ Goto(t, "next") /\ "next" \in PCs
        /\ \/ UNCHANGED <<jobs, splitList>>
           \/ /\ th[t].head \notin splitList
              /\ splitList' = splitList \cup {th[t].head} /\ jobs' = Append(jobs, SplitJob(th[t].head))
    BY <1>3 DEF CheckSize, PCs
  <2>2. Moved(t) /\ GoesTo(th'[t], th[t], "next")
    BY <2>1, GotoEffect
  <2> QED
    BY <1>1, <2>1, <2>2
<1> QED
  BY <1>2, <1>3

LEMMA SelectHeadsEffect ==
    ASSUME Types, NEW t \in Threads, SelectHeads(t)
    PROVE  /\ th[t].pc = "reassign" /\ Moved(t) /\ StillAll
           /\ \/ (version[th[t].vid] # th[t].ver \/ th[t].prev \in heads) /\ th'[t] = Idle
              \/ /\ th'[t].pc = "bump" /\ th'[t].todo \in SUBSET heads /\ th'[t].todo # {}
                 /\ SameVector(th'[t], th[t]) /\ SameCall(th'[t], th[t])
                 /\ SameSplit(th'[t], th[t]) /\ SameMerge(th'[t], th[t])
<1>1. th[t].pc = "reassign" /\ StillAll
  BY DEF SelectHeads, StillAll, index, store, lists, budgets
<1>2. CASE version[th[t].vid] # th[t].ver
  <2>1. Finish(t)
    BY <1>2 DEF SelectHeads
  <2> QED
    BY <1>1, <1>2, <2>1, FinishEffect
<1>3. CASE ~(version[th[t].vid] # th[t].ver)
  <2>1. PICK S \in Selections : IF th[t].prev \in S THEN Finish(t)
                                ELSE th' = [th EXCEPT ![t].pc = "bump", ![t].todo = S]
    BY <1>3 DEF SelectHeads
  <2>2. S \in SUBSET heads /\ S # {} /\ S \in SUBSET HeadIds
    BY DEF Types, Selections, UpTo
  <2>3. CASE th[t].prev \in S
    BY <1>1, <2>1, <2>2, <2>3, FinishEffect
  <2>4. CASE th[t].prev \notin S
    <3> DEFINE q == [th[t] EXCEPT !.pc = "bump", !.todo = S]
    <3>1. th \in [Threads -> ThreadStates] /\ th[t] \in ThreadStates
      BY DEF Types
    <3>2. /\ q \in ThreadStates /\ q.pc = "bump" /\ q.todo = S
          /\ SameVector(q, th[t]) /\ SameCall(q, th[t]) /\ SameSplit(q, th[t]) /\ SameMerge(q, th[t])
      BY <2>2, <3>1 DEF ThreadStates, PCs, SameVector, SameCall, SameSplit, SameMerge
    <3>3. th' = [th EXCEPT ![t] = q]
      BY <2>1, <2>4, <3>1
    <3> HIDE DEF q
    <3>4. Moved(t) /\ th'[t] = q
      BY <3>1, <3>2, <3>3, ThreadBecomes
    <3> QED
      BY <1>1, <2>2, <3>2, <3>4
  <2> QED
    BY <2>3, <2>4
<1> QED
  BY <1>2, <1>3

LEMMA RecheckVersionEffect ==
    ASSUME Types, NEW t \in Threads, RecheckVersion(t)
    PROVE  /\ th[t].pc = "bump" /\ Moved(t) /\ StillAll
           /\ \/ version[th[t].vid] = th[t].ver /\ GoesTo(th'[t], th[t], "increment")
              \/ version[th[t].vid] # th[t].ver /\ th'[t] = Idle
<1>1. "increment" \in PCs /\ th[t].pc = "bump" /\ StillAll
  BY DEF RecheckVersion, StillAll, index, store, lists, budgets, PCs
<1> QED
  BY <1>1, GotoEffect, FinishEffect DEF RecheckVersion

LEMMA IncrementEffect ==
    ASSUME Types, NEW t \in Threads, Increment(t)
    PROVE  /\ th[t].pc = "increment" /\ Moved(t)
           /\ \/ version[th[t].vid] = DELETED /\ GoesTo(th'[t], th[t], "next") /\ version' = version
              \/ /\ version[th[t].vid] \in Nat /\ version' = [version EXCEPT ![th[t].vid] = @ + 1]
                 /\ th'[t].pc = "next" /\ th'[t].vid = th[t].vid /\ th'[t].prev = th[t].prev
                 /\ th'[t].ver = version[th[t].vid] + 1 /\ th'[t].todo = th[t].todo
                 /\ SameCall(th'[t], th[t]) /\ SameSplit(th'[t], th[t]) /\ SameMerge(th'[t], th[t])
           /\ UNCHANGED <<heads, nextHead, headVector, posting, keys, jobs, lock, mergeLock, splitList, mergeList,
                          setting, searches, collections>>
<1>1. /\ th[t].pc = "increment"
      /\ UNCHANGED <<heads, nextHead, headVector, posting, keys, jobs, lock, mergeLock, splitList, mergeList,
                     setting, searches, collections>>
  BY DEF Increment, index, store, lists, budgets
<1>2. th \in [Threads -> ThreadStates] /\ th[t] \in ThreadStates /\ ThreadOK(th[t], version)
  BY DEF Types
<1>3. version[th[t].vid] \in Nat \cup {DELETED}
  BY <1>1, <1>2 DEF Types, ThreadOK, PlaceInv, Moves, MovePCs
<1>4. CASE version[th[t].vid] = DELETED
  <2>1. Goto(t, "next") /\ "next" \in PCs /\ version' = version
    BY <1>4 DEF Increment, PCs
  <2> QED
    BY <1>1, <1>4, <2>1, GotoEffect
<1>5. CASE version[th[t].vid] # DELETED
  <2> DEFINE w == version[th[t].vid] + 1
             q == [th[t] EXCEPT !.pc = "next", !.ver = w]
  <2>1. th' = [th EXCEPT ![t] = q] /\ version' = [version EXCEPT ![th[t].vid] = @ + 1]
    BY <1>2, <1>5 DEF Increment
  <2>2. w \in Nat
    BY <1>3, <1>5
  <2> HIDE DEF w
  <2>3. /\ q \in ThreadStates /\ q.pc = "next" /\ q.vid = th[t].vid /\ q.prev = th[t].prev /\ q.ver = w /\ q.todo = th[t].todo
        /\ SameCall(q, th[t]) /\ SameSplit(q, th[t]) /\ SameMerge(q, th[t])
    BY <1>2, <2>2 DEF ThreadStates, PCs, SameCall, SameSplit, SameMerge
  <2> HIDE DEF q
  <2>4. Moved(t) /\ th'[t] = q
    BY <1>2, <2>1, <2>3, ThreadBecomes
  <2> QED
    BY <1>1, <1>3, <1>5, <2>1, <2>3, <2>4 DEF w
<1> QED
  BY <1>4, <1>5

\* A posting has one live entry for a vector.
LEMMA LiveFinite ==
    ASSUME Types, NEW h \in HeadIds
    PROVE  IsFiniteSet(Live(h))
<1> DEFINE f == [e \in Live(h) |-> e[1]]
<1>1. \A e \in Live(h) : e = <<e[1], version[e[1]]>> /\ e[1] \in Vectors
  BY DEF Live, Current, Types, Entries
<1>2. f \in Injection(Live(h), Vectors)
  BY <1>1 DEF Injection, IsInjective
<1> QED
  BY <1>2, BoundAssumption, FS_Injection

\* Split.
Returns(q, r) ==
    \/ r.after = "idle" /\ q = Idle
    \/ /\ r.after # "idle" /\ q.pc = r.after /\ q.todo = r.todo /\ SameVector(q, r) /\ SameCall(q, r)
       /\ SameSplit(q, Idle) /\ SameMerge(q, r)

LEMMA SplitReturnEffect ==
    ASSUME Types, NEW t \in Threads, SplitReturn(t)
    PROVE  Moved(t) /\ Returns(th'[t], th[t])
<1>1. th \in [Threads -> ThreadStates] /\ th[t] \in ThreadStates
  BY DEF Types
<1>2. CASE th[t].after = "idle"
  <2>1. Finish(t)
    BY <1>2 DEF SplitReturn, Finish
  <2> QED
    BY <1>2, <2>1, FinishEffect DEF Returns
<1>3. CASE th[t].after # "idle"
  <2> DEFINE q == [th[t] EXCEPT !.pc = th[t].after, !.clusters = <<{}, {}>>, !.ids = <<NoHead, NoHead>>, !.same = 0, !.k = 1]
  <2>1. th' = [th EXCEPT ![t] = q]
    BY <1>3 DEF SplitReturn
  <2>2. q \in ThreadStates /\ Returns(q, th[t])
    <3>1. th[t].after \in PCs /\ <<{}, {}>> \in [1..2 -> SUBSET Entries] /\ <<NoHead, NoHead>> \in [1..2 -> HeadRefs]
      BY <1>1 DEF ThreadStates, PCs, HeadRefs
    <3> QED
      BY <1>1, <1>3, <3>1, IdleFields DEF ThreadStates, Returns, SameVector, SameCall, SameSplit, SameMerge
  <2> HIDE DEF q
  <2> QED
    BY <1>1, <2>1, <2>2, ThreadBecomes
<1> QED
  BY <1>2, <1>3

LEMMA SplitHeadGoneEffect ==
    ASSUME Types, NEW t \in Threads, SplitHeadGone(t)
    PROVE  /\ th[t].pc = "split" /\ CanLock(t, th[t].head) /\ th[t].head \notin heads
           /\ Release(th[t].head) /\ Moved(t) /\ Returns(th'[t], th[t])
           /\ UNCHANGED <<heads, nextHead, headVector, posting, keys, version, jobs, mergeLock, splitList, mergeList,
                          setting, searches, collections>>
<1>1. SplitReturn(t)
  BY DEF SplitHeadGone
<1> QED
  BY <1>1, SplitReturnEffect DEF SplitHeadGone, index, store, lists, budgets

\* SplitCollect and SplitOneCluster: the posting keeps some of its live entries.
LEMMA SplitKeepsEffect ==
    ASSUME Types, NEW t \in Threads, SplitCollect(t) \/ SplitOneCluster(t)
    PROVE  /\ th[t].pc = "split" /\ CanLock(t, th[t].head) /\ th[t].head \in heads
           /\ \E L \in SUBSET Live(th[t].head) :
                /\ posting' = [posting EXCEPT ![th[t].head] = L]
                /\ setting.sameVectors \/ L = Live(th[t].head)
           /\ splitList' = splitList \ {th[t].head}
           /\ Release(th[t].head) /\ Moved(t) /\ Returns(th'[t], th[t])
           /\ UNCHANGED <<heads, nextHead, headVector, keys, version, jobs, mergeLock, mergeList,
                          setting, searches, collections>>
<1>1. /\ th[t].pc = "split" /\ CanLock(t, th[t].head) /\ th[t].head \in heads /\ SplitReturn(t)
      /\ splitList' = splitList \ {th[t].head} /\ Release(th[t].head)
      /\ UNCHANGED <<heads, nextHead, headVector, keys, version, jobs, mergeLock, mergeList, setting, searches, collections>>
  BY DEF SplitCollect, SplitOneCluster, index, budgets
<1>2. \E L \in SUBSET Live(th[t].head) :
        /\ posting' = [posting EXCEPT ![th[t].head] = L]
        /\ setting.sameVectors \/ L = Live(th[t].head)
  <2>1. CASE SplitCollect(t)
    BY <2>1 DEF SplitCollect
  <2>2. CASE SplitOneCluster(t)
    <3>1. PICK e \in Live(th[t].head) : posting' = [posting EXCEPT ![th[t].head] = {e}]
      BY <2>2 DEF SplitOneCluster
    <3>2. setting.sameVectors \/ Cardinality(Live(th[t].head)) = 1
      BY <2>2 DEF SplitOneCluster
    <3>3. CASE setting.sameVectors
      BY <3>1, <3>3
    <3>4. CASE ~setting.sameVectors
      <4>1. Live(th[t].head) = {e}
        <5>1. IsFiniteSet(Live(th[t].head))
          BY <1>1, LiveFinite DEF Types
        <5> QED
          BY <3>2, <3>4, <5>1, FS_Singleton
      <4> QED
        BY <3>1, <4>1
    <3> QED
      BY <3>3, <3>4
  <2> QED
    BY <2>1, <2>2
<1> QED
  BY <1>1, <1>2, SplitReturnEffect

\* One local at a time.
AtPlace(r, p) == [r EXCEPT !.pc = p]
AtCluster(r, j) == [r EXCEPT !.k = j]
WithIds(r, ids) == [r EXCEPT !.ids = ids]
WithClusters(r, cs) == [r EXCEPT !.clusters = cs]
WithSame(r, j) == [r EXCEPT !.same = j]

SameRest(q, r) == q.todo = r.todo /\ SameVector(q, r) /\ SameCall(q, r) /\ SameMerge(q, r)

LEMMA PlaceSet ==
    ASSUME NEW r \in ThreadStates, NEW p \in PCs
    PROVE  /\ AtPlace(r, p) \in ThreadStates /\ AtPlace(r, p).pc = p
           /\ SameSplit(AtPlace(r, p), r) /\ SameRest(AtPlace(r, p), r)
BY DEF AtPlace, ThreadStates, SameRest, SameVector, SameCall, SameSplit, SameMerge

LEMMA ClusterSet ==
    ASSUME NEW r \in ThreadStates, NEW j \in 1..2
    PROVE  LET q == AtCluster(r, j) IN
           /\ q \in ThreadStates /\ q.pc = r.pc /\ q.k = j /\ q.clusters = r.clusters /\ q.ids = r.ids /\ q.same = r.same
           /\ SameRest(q, r)
<1>1. AtCluster(r, j) \in ThreadStates
  BY DEF AtCluster, ThreadStates
<1> QED
  BY <1>1 DEF AtCluster, ThreadStates, SameRest, SameVector, SameCall, SameMerge

LEMMA IdsSet ==
    ASSUME NEW r \in ThreadStates, NEW ids \in [1..2 -> HeadRefs]
    PROVE  LET q == WithIds(r, ids) IN
           /\ q \in ThreadStates /\ q.pc = r.pc /\ q.ids = ids /\ q.clusters = r.clusters /\ q.k = r.k /\ q.same = r.same
           /\ SameRest(q, r)
<1>1. WithIds(r, ids) \in ThreadStates
  BY DEF WithIds, ThreadStates
<1> QED
  BY <1>1 DEF WithIds, ThreadStates, SameRest, SameVector, SameCall, SameMerge

LEMMA ClustersSet ==
    ASSUME NEW r \in ThreadStates, NEW cs \in [1..2 -> SUBSET Entries]
    PROVE  LET q == WithClusters(r, cs) IN
           /\ q \in ThreadStates /\ q.pc = r.pc /\ q.clusters = cs /\ q.ids = r.ids /\ q.k = r.k /\ q.same = r.same
           /\ SameRest(q, r)
<1>1. WithClusters(r, cs) \in ThreadStates
  BY DEF WithClusters, ThreadStates
<1> QED
  BY <1>1 DEF WithClusters, ThreadStates, SameRest, SameVector, SameCall, SameMerge

LEMMA SameSet ==
    ASSUME NEW r \in ThreadStates, NEW j \in 0..2
    PROVE  LET q == WithSame(r, j) IN
           /\ q \in ThreadStates /\ q.pc = r.pc /\ q.same = j /\ q.clusters = r.clusters /\ q.ids = r.ids /\ q.k = r.k
           /\ SameRest(q, r)
<1>1. WithSame(r, j) \in ThreadStates
  BY DEF WithSame, ThreadStates
<1> QED
  BY <1>1 DEF WithSame, ThreadStates, SameRest, SameVector, SameCall, SameMerge

LEMMA SplitTwoClustersEffect ==
    ASSUME Types, NEW t \in Threads, SplitTwoClusters(t)
    PROVE  /\ th[t].pc = "split" /\ CanLock(t, th[t].head) /\ th[t].head \in heads /\ Acquire(t, th[t].head)
           /\ Moved(t) /\ th'[t].pc = "newhead" /\ th'[t].k = 1 /\ th'[t].same \in 0..2 /\ th'[t].ids = th[t].ids
           /\ th'[t].clusters[1] \in SUBSET Live(th[t].head)
           /\ th'[t].clusters[2] = Live(th[t].head) \ th'[t].clusters[1]
           /\ th'[t].todo = th[t].todo /\ SameVector(th'[t], th[t]) /\ SameCall(th'[t], th[t]) /\ SameMerge(th'[t], th[t])
           /\ UNCHANGED <<heads, nextHead, headVector, posting, keys, version, jobs, mergeLock, splitList, mergeList,
                          setting, searches, collections>>
<1> DEFINE L == Live(th[t].head)
<1>1. /\ th[t].pc = "split" /\ CanLock(t, th[t].head) /\ th[t].head \in heads /\ Acquire(t, th[t].head)
      /\ UNCHANGED <<heads, nextHead, headVector, posting, keys, version, jobs, mergeLock, splitList, mergeList,
                     setting, searches, collections>>
  BY DEF SplitTwoClusters, index, store, lists, budgets
<1>2. PICK c \in SUBSET L, same \in 0..2 :
        th' = [th EXCEPT ![t].pc = "newhead", ![t].clusters = <<c, L \ c>>, ![t].same = same, ![t].k = 1]
  BY DEF SplitTwoClusters
<1>3. /\ th \in [Threads -> ThreadStates] /\ th[t] \in ThreadStates /\ L \in SUBSET Entries
  BY <1>1 DEF Types, Live
<1> HIDE DEF L
<1> DEFINE cs == <<c, L \ c>>
           p == AtPlace(th[t], "newhead")
           q == AtCluster(WithSame(WithClusters(p, cs), same), 1)
<1>4. cs \in [1..2 -> SUBSET Entries] /\ cs[1] = c /\ cs[2] = L \ c /\ "newhead" \in PCs
  BY <1>3 DEF PCs
<1>5. th' = [th EXCEPT ![t] = q]
  <2> HIDE DEF cs
  <2>1. th' = [th EXCEPT ![t].pc = "newhead", ![t].clusters = cs, ![t].same = same, ![t].k = 1]
    BY <1>2 DEF cs
  <2> QED
    BY ONLY <1>3, <2>1 DEF q, p, AtPlace, AtCluster, WithSame, WithClusters
<1> HIDE DEF cs
<1>6. /\ q \in ThreadStates /\ q.pc = "newhead" /\ q.k = 1 /\ q.same = same /\ q.ids = th[t].ids /\ q.clusters = cs
      /\ SameRest(q, th[t])
  <2>1. p \in ThreadStates /\ p.pc = "newhead" /\ SameSplit(p, th[t]) /\ SameRest(p, th[t])
    BY <1>3, <1>4, PlaceSet
  <2> HIDE DEF p
  <2> DEFINE w == WithClusters(p, cs)
             x == WithSame(w, same)
  <2>2. w \in ThreadStates /\ w.pc = p.pc /\ w.clusters = cs /\ w.ids = p.ids /\ SameRest(w, p)
    BY <1>4, <2>1, ClustersSet
  <2> HIDE DEF w
  <2>3. x \in ThreadStates /\ x.pc = w.pc /\ x.same = same /\ x.clusters = w.clusters /\ x.ids = w.ids /\ SameRest(x, w)
    BY <2>2, SameSet
  <2>4. q = AtCluster(x, 1)
    BY DEF w
  <2> HIDE DEF x, q
  <2>5. q \in ThreadStates /\ q.pc = x.pc /\ q.k = 1 /\ q.clusters = x.clusters /\ q.ids = x.ids /\ q.same = x.same /\ SameRest(q, x)
    BY <2>3, <2>4, ClusterSet
  <2> QED
    BY <2>1, <2>2, <2>3, <2>5 DEF SameRest, SameSplit, SameVector, SameCall, SameMerge
<1> HIDE DEF q
<1>7. Moved(t) /\ th'[t] = q
  BY <1>3, <1>5, <1>6, ThreadBecomes
<1> QED
  BY <1>1, <1>4, <1>6, <1>7 DEF L, SameRest

\* A cluster has its id, and Split goes on with the next one.
Advances(q, r) ==
    /\ q.pc = IF r.k = 2 THEN "unlink" ELSE "newhead"
    /\ q.k = 2 /\ q.clusters = r.clusters /\ q.same = r.same /\ q.todo = r.todo
    /\ SameVector(q, r) /\ SameCall(q, r) /\ SameMerge(q, r)

\* The thread has a place and an id for a cluster.
PlaceAndId(r, p, n) == WithIds(AtPlace(r, p), [r.ids EXCEPT ![r.k] = n])

LEMMA IdGiven ==
    ASSUME NEW r \in ThreadStates, NEW p \in PCs, NEW n \in HeadRefs
    PROVE  LET q == PlaceAndId(r, p, n) IN
           /\ q \in ThreadStates /\ q.pc = p /\ q.ids = [r.ids EXCEPT ![r.k] = n]
           /\ q.k = r.k /\ q.clusters = r.clusters /\ q.same = r.same /\ SameRest(q, r)
<1> DEFINE a == AtPlace(r, p)
           ids == [r.ids EXCEPT ![r.k] = n]
           q == WithIds(a, ids)
<1>1. a \in ThreadStates /\ a.pc = p /\ SameSplit(a, r) /\ SameRest(a, r)
  BY PlaceSet
<1>2. ids \in [1..2 -> HeadRefs]
  BY DEF ThreadStates
<1>3. q = PlaceAndId(r, p, n)
  BY DEF PlaceAndId
<1>4. ids = [r.ids EXCEPT ![r.k] = n]
  OBVIOUS
<1> HIDE DEF a, ids
<1>5. /\ q \in ThreadStates /\ q.pc = a.pc /\ q.ids = ids /\ q.k = a.k /\ q.clusters = a.clusters
      /\ q.same = a.same /\ SameRest(q, a)
  BY <1>1, <1>2, IdsSet
<1> HIDE DEF q
<1>6. /\ q \in ThreadStates /\ q.pc = p /\ q.ids = ids
      /\ q.k = r.k /\ q.clusters = r.clusters /\ q.same = r.same /\ SameRest(q, r)
  BY <1>1, <1>5 DEF SameRest, SameSplit, SameVector, SameCall, SameMerge
<1> QED
  BY ONLY <1>3, <1>4, <1>6

LEMMA KeepHeadEffect ==
    ASSUME Types, NEW t \in Threads, KeepHead(t)
    PROVE  /\ th[t].pc = "newhead" /\ th[t].same = th[t].k
           /\ posting' = [posting EXCEPT ![th[t].head] = th[t].clusters[th[t].k]]
           /\ Moved(t) /\ Advances(th'[t], th[t]) /\ th'[t].ids = [th[t].ids EXCEPT ![th[t].k] = th[t].head]
           /\ UNCHANGED <<heads, nextHead, headVector, keys, version, jobs, lock, mergeLock, splitList, mergeList,
                          setting, searches, collections>>
<1> DEFINE p == IF th[t].k = 2 THEN "unlink" ELSE "newhead"
           a == PlaceAndId(th[t], p, th[t].head)
           q == AtCluster(a, 2)
<1>1. th \in [Threads -> ThreadStates] /\ th[t] \in ThreadStates /\ p \in PCs /\ th[t].head \in HeadRefs
  BY DEF Types, ThreadStates, PCs
<1>2. th' = [th EXCEPT ![t].pc = NextCluster(t), ![t].ids[th[t].k] = th[t].head, ![t].k = 2] /\ NextCluster(t) = p
  BY DEF KeepHead, NextCluster
<1>3. th[t].pc = "newhead" /\ th[t].same = th[t].k /\ posting' = [posting EXCEPT ![th[t].head] = th[t].clusters[th[t].k]]
      /\ UNCHANGED <<heads, nextHead, headVector, keys, version, jobs, lock, mergeLock, splitList, mergeList,
                     setting, searches, collections>>
  BY DEF KeepHead, index, lists, budgets
<1>4. p = IF th[t].k = 2 THEN "unlink" ELSE "newhead"
  OBVIOUS
<1> HIDE DEF p
<1>5. th' = [th EXCEPT ![t] = q]
  <2>1. AtPlace(th[t], p).ids = th[t].ids
    BY <1>1, PlaceSet DEF SameSplit
  <2> QED
    BY ONLY <1>1, <1>2, <2>1 DEF a, q, PlaceAndId, AtPlace, WithIds, AtCluster
<1>6. /\ a \in ThreadStates /\ a.pc = p /\ a.ids = [th[t].ids EXCEPT ![th[t].k] = th[t].head]
      /\ a.clusters = th[t].clusters /\ a.same = th[t].same /\ SameRest(a, th[t])
  BY ONLY <1>1, IdGiven DEF a
<1> HIDE DEF a
<1>7. /\ q \in ThreadStates /\ q.k = 2 /\ q.pc = a.pc /\ q.ids = a.ids /\ q.clusters = a.clusters /\ q.same = a.same
      /\ SameRest(q, a)
  BY ONLY <1>6, ClusterSet DEF q
<1> HIDE DEF q
<1>8. Moved(t) /\ th'[t] = q
  BY <1>1, <1>5, <1>7, ThreadBecomes
<1>9. Advances(q, th[t]) /\ q.ids = [th[t].ids EXCEPT ![th[t].k] = th[t].head]
  BY ONLY <1>4, <1>6, <1>7 DEF Advances, SameRest, SameVector, SameCall, SameMerge
<1> QED
  BY <1>3, <1>8, <1>9

LEMMA NewHeadEffect ==
    ASSUME Types, NEW t \in Threads, NewHead(t)
    PROVE  /\ th[t].pc = "newhead" /\ th[t].same # th[t].k
           /\ nextHead \in HeadIds /\ nextHead' = nextHead + 1 /\ nextHead' \in 0..MaxHeads
           /\ Moved(t) /\ th'[t].pc = "put" /\ th'[t].ids = [th[t].ids EXCEPT ![th[t].k] = nextHead]
           /\ th'[t].k = th[t].k /\ th'[t].clusters = th[t].clusters /\ th'[t].same = th[t].same /\ th'[t].todo = th[t].todo
           /\ SameVector(th'[t], th[t]) /\ SameCall(th'[t], th[t]) /\ SameMerge(th'[t], th[t])
           /\ \/ /\ ExcludeHead
                 /\ \E e \in th[t].clusters[th[t].k] :
                      /\ headVector' = [headVector EXCEPT ![nextHead] = e[1]]
                      /\ version' = [version EXCEPT ![e[1]] = IF @ = DELETED THEN @ ELSE @ + 1]
              \/ ~ExcludeHead /\ UNCHANGED <<headVector, version>>
           /\ UNCHANGED <<heads, posting, keys, jobs, lock, mergeLock, splitList, mergeList,
                          setting, searches, collections>>
<1> DEFINE q == PlaceAndId(th[t], "put", nextHead)
<1>1. nextHead \in HeadIds /\ nextHead + 1 \in 0..MaxHeads
  <2>1. setting \in Setting /\ nextHead \in 0..MaxHeads /\ nextHead < setting.heads
    BY SettingsAssumption DEF Types, NewHead
  <2>2. setting.heads \in 2..MaxHeads
    BY <2>1 DEF Setting
  <2> QED
    BY <2>1, <2>2, BoundAssumption DEF HeadIds
<1>2. /\ th \in [Threads -> ThreadStates] /\ th[t] \in ThreadStates /\ "put" \in PCs /\ nextHead \in HeadRefs
  BY <1>1 DEF Types, PCs, HeadRefs
<1>3. th' = [th EXCEPT ![t] = q]
  <2>1. th' = [th EXCEPT ![t].pc = "put", ![t].ids[th[t].k] = nextHead]
    BY DEF NewHead
  <2>2. AtPlace(th[t], "put").ids = th[t].ids
    BY <1>2, PlaceSet DEF SameSplit
  <2> QED
    BY ONLY <1>2, <2>1, <2>2 DEF q, PlaceAndId, AtPlace, WithIds
<1>4. /\ q \in ThreadStates /\ q.pc = "put" /\ q.ids = [th[t].ids EXCEPT ![th[t].k] = nextHead] /\ q.k = th[t].k
      /\ q.clusters = th[t].clusters /\ q.same = th[t].same /\ SameRest(q, th[t])
  BY ONLY <1>2, IdGiven DEF q
<1> HIDE DEF q
<1>5. Moved(t) /\ th'[t] = q
  BY <1>2, <1>3, <1>4, ThreadBecomes
<1>6. /\ th[t].pc = "newhead" /\ th[t].same # th[t].k /\ nextHead' = nextHead + 1
      /\ \/ /\ ExcludeHead
            /\ \E e \in th[t].clusters[th[t].k] :
                 /\ headVector' = [headVector EXCEPT ![nextHead] = e[1]]
                 /\ version' = [version EXCEPT ![e[1]] = IF @ = DELETED THEN @ ELSE @ + 1]
         \/ ~ExcludeHead /\ UNCHANGED <<headVector, version>>
      /\ UNCHANGED <<heads, posting, keys, jobs, lock, mergeLock, splitList, mergeList, setting, searches, collections>>
  BY DEF NewHead, store, lists, budgets
<1> QED
  BY <1>1, <1>4, <1>5, <1>6 DEF SameRest

LEMMA PutNewPostingEffect ==
    ASSUME Types, NEW t \in Threads, PutNewPosting(t)
    PROVE  /\ th[t].pc = "put" /\ th[t].ids[th[t].k] \in HeadIds
           /\ posting' = [posting EXCEPT ![th[t].ids[th[t].k]] = th[t].clusters[th[t].k]]
           /\ keys' = keys \cup {th[t].ids[th[t].k]} /\ heads' = heads \cup {th[t].ids[th[t].k]}
           /\ Moved(t) /\ Advances(th'[t], th[t]) /\ th'[t].ids = th[t].ids
           /\ UNCHANGED <<nextHead, headVector, version, jobs, lock, mergeLock, splitList, mergeList,
                          setting, searches, collections>>
<1> DEFINE p == IF th[t].k = 2 THEN "unlink" ELSE "newhead"
           a == AtPlace(th[t], p)
           q == AtCluster(a, 2)
<1>1. th \in [Threads -> ThreadStates] /\ th[t] \in ThreadStates /\ p \in PCs /\ ThreadOK(th[t], version)
  BY DEF Types, ThreadStates, PCs
<1>2. th' = [th EXCEPT ![t] = q]
  <2>1. th' = [th EXCEPT ![t].pc = NextCluster(t), ![t].k = 2] /\ NextCluster(t) = p
    BY DEF PutNewPosting, NextCluster
  <2> HIDE DEF p
  <2> QED
    BY ONLY <1>1, <2>1 DEF q, a, AtPlace, AtCluster
<1>3. q \in ThreadStates /\ Advances(q, th[t]) /\ q.ids = th[t].ids
  <2>1. p = IF th[t].k = 2 THEN "unlink" ELSE "newhead"
    OBVIOUS
  <2> HIDE DEF p
  <2>2. a \in ThreadStates /\ a.pc = p /\ SameSplit(a, th[t]) /\ SameRest(a, th[t])
    BY <1>1, PlaceSet
  <2> HIDE DEF a
  <2>3. q \in ThreadStates /\ q.k = 2 /\ q.pc = a.pc /\ q.ids = a.ids /\ q.clusters = a.clusters /\ q.same = a.same /\ SameRest(q, a)
    BY <2>2, ClusterSet
  <2> HIDE DEF q
  <2> QED
    BY ONLY <2>1, <2>2, <2>3 DEF Advances, SameRest, SameSplit, SameVector, SameCall, SameMerge
<1> HIDE DEF q
<1>4. Moved(t) /\ th'[t] = q
  BY <1>1, <1>2, <1>3, ThreadBecomes
<1>5. th[t].pc = "put" /\ th[t].ids[th[t].k] \in HeadIds
  BY <1>1 DEF PutNewPosting, ThreadOK, PlaceInv
<1> QED
  BY <1>3, <1>4, <1>5 DEF PutNewPosting, lists, budgets

LEMMA UnlinkEffect ==
    ASSUME Types, NEW t \in Threads, Unlink(t)
    PROVE  /\ th[t].pc = "unlink" /\ Moved(t) /\ GoesTo(th'[t], th[t], "unlist")
           /\ \/ /\ th[t].same = 0 /\ heads' = heads \ {th[t].head} /\ keys' = keys \ {th[t].head}
                 /\ posting' = [posting EXCEPT ![th[t].head] = {}]
              \/ th[t].same # 0 /\ UNCHANGED <<heads, posting, keys>>
           /\ \/ th[t].after = "append" /\ lock' = lock
              \/ th[t].after # "append" /\ Release(th[t].head)
           /\ UNCHANGED <<nextHead, headVector, version, jobs, mergeLock, splitList, mergeList,
                          setting, searches, collections>>
<1>1. Goto(t, "unlist") /\ "unlist" \in PCs
  BY DEF Unlink, PCs
<1> QED
  BY <1>1, GotoEffect DEF Unlink, store, lists, budgets

LEMMA UnlistEffect ==
    ASSUME Types, NEW t \in Threads, Unlist(t)
    PROVE  /\ th[t].pc = "unlist" /\ splitList' = splitList \ {th[t].head} /\ Moved(t)
           /\ \/ th[t].reassign /\ GoesTo(th'[t], th[t], "collect")
              \/ ~th[t].reassign /\ Returns(th'[t], th[t])
           /\ UNCHANGED <<heads, nextHead, headVector, posting, keys, version, jobs, lock, mergeLock, mergeList,
                          setting, searches, collections>>
<1>1. /\ "collect" \in PCs /\ th[t].pc = "unlist" /\ splitList' = splitList \ {th[t].head}
      /\ UNCHANGED <<heads, nextHead, headVector, posting, keys, version, jobs, lock, mergeLock, mergeList,
                     setting, searches, collections>>
  BY DEF Unlist, PCs, index, store, budgets
<1>2. IF th[t].reassign THEN Goto(t, "collect") ELSE SplitReturn(t)
  BY DEF Unlist
<1> QED
  BY <1>1, <1>2, GotoEffect, SplitReturnEffect

\* The jobs of a queue.
LEMMA JobsConcat ==
    ASSUME NEW p \in Seq(Jobs), NEW q \in Seq(Jobs)
    PROVE  p \o q \in Seq(Jobs) /\ Range(p \o q) = Range(p) \cup Range(q)
BY RangeConcatenation

LEMMA OneJob ==
    ASSUME NEW j \in Jobs
    PROVE  <<j>> \in Seq(Jobs) /\ Range(<<j>>) = {j}
BY DEF Range

LEMMA JobsAppended ==
    ASSUME jobs \in Seq(Jobs), NEW j \in Jobs, jobs' = Append(jobs, j)
    PROVE  jobs' \in Seq(Jobs) /\ JobSet' = JobSet \cup {j}
<1> DEFINE q == <<j>>
<1>1. q \in Seq(Jobs) /\ Range(q) = {j}
  BY OneJob
<1>2. jobs' = jobs \o q
  BY AppendIsConcat
<1> HIDE DEF q
<1>3. jobs \o q \in Seq(Jobs) /\ Range(jobs \o q) = Range(jobs) \cup Range(q)
  BY <1>1, JobsConcat
<1> QED
  BY ONLY <1>1, <1>2, <1>3 DEF JobSet, Range

LEMMA JobsJoined ==
    ASSUME jobs \in Seq(Jobs), NEW p \in Seq(Jobs), NEW q \in Seq(Jobs), jobs' = jobs \o p \o q
    PROVE  jobs' \in Seq(Jobs) /\ JobSet' = JobSet \cup Range(p) \cup Range(q)
<1> DEFINE s == jobs \o p
<1>1. s \in Seq(Jobs) /\ Range(s) = Range(jobs) \cup Range(p)
  BY JobsConcat
<1>2. jobs' = s \o q
  OBVIOUS
<1> HIDE DEF s
<1>3. s \o q \in Seq(Jobs) /\ Range(s \o q) = Range(s) \cup Range(q)
  BY <1>1, JobsConcat
<1> QED
  BY ONLY <1>1, <1>2, <1>3 DEF JobSet, Range

LEMMA JobTaken ==
    ASSUME jobs \in Seq(Jobs), jobs # <<>>, jobs' = Tail(jobs)
    PROVE  jobs' \in Seq(Jobs) /\ JobSet' \subseteq JobSet /\ JobSet \subseteq JobSet' \cup {Head(jobs)}
<1> DEFINE p == <<Head(jobs)>>
           q == Tail(jobs)
<1>1. q \in Seq(Jobs) /\ Head(jobs) \in Jobs /\ jobs = p \o q
  BY HeadTailProperties
<1>2. p \in Seq(Jobs) /\ Range(p) = {Head(jobs)}
  BY <1>1, OneJob
<1>3. jobs' = q
  OBVIOUS
<1> HIDE DEF p, q
<1>4. Range(p \o q) = Range(p) \cup Range(q)
  BY <1>1, <1>2, JobsConcat
<1>5. JobSet = Range(jobs) /\ JobSet' = Range(q)
  BY ONLY <1>3 DEF JobSet, Range
<1>6. Range(jobs) = Range(p) \cup Range(q)
  BY ONLY <1>1, <1>4
<1> QED
  BY ONLY <1>1, <1>2, <1>3, <1>5, <1>6

LEMMA HeadVectorJobsAre ==
    ASSUME Types, NEW h \in HeadIds
    PROVE  /\ HeadVectorJobs(h) \in Seq(Jobs)
           /\ LET v == headVector[h]
                  j == ReassignJob(<<v, version[v]>>, NoHead)
              IN IF ExcludeHead /\ v # NoVector /\ version[v] # DELETED
                   THEN v \in Vectors /\ version[v] \in Nat /\ j \in Jobs /\ Range(HeadVectorJobs(h)) = {j}
                   ELSE Range(HeadVectorJobs(h)) = {}
<1> DEFINE v == headVector[h]
           j == ReassignJob(<<v, version[v]>>, NoHead)
<1>1. CASE ExcludeHead /\ v # NoVector /\ version[v] # DELETED
  <2>1. v \in Vectors /\ version[v] \in Nat
    BY <1>1 DEF Types
  <2>2. j \in Jobs
    BY <2>1 DEF Jobs, ReassignJob, Entries, HeadRefs
  <2>3. HeadVectorJobs(h) = <<j>>
    BY <1>1 DEF HeadVectorJobs
  <2> HIDE DEF j
  <2>4. HeadVectorJobs(h) \in Seq(Jobs) /\ Range(HeadVectorJobs(h)) = {j}
    BY <2>2, <2>3 DEF Range
  <2> QED
    BY <1>1, <2>1, <2>2, <2>4 DEF j
<1>2. CASE ~(ExcludeHead /\ v # NoVector /\ version[v] # DELETED)
  <2>1. HeadVectorJobs(h) = <<>>
    BY <1>2 DEF HeadVectorJobs
  <2>2. HeadVectorJobs(h) \in Seq(Jobs) /\ Range(HeadVectorJobs(h)) = {}
    BY <2>1 DEF Range
  <2> QED
    BY <1>2, <2>2
<1> QED
  BY <1>1, <1>2

LEMMA OrdersAre ==
    ASSUME NEW js \in SUBSET Jobs, NEW q \in Orders(js), IsFiniteSet(js)
    PROVE  q \in Seq(Jobs) /\ Range(q) \subseteq js
<1>1. Cardinality(js) \in Nat
  BY FS_CardinalityType
<1>2. q \in [1..Cardinality(js) -> js]
  BY DEF Orders
<1>3. q \in Seq(js)
  BY <1>1, <1>2
<1> QED
  BY <1>2, <1>3 DEF Range

JobsFor(es, n) == {ReassignJob(e, n) : e \in es}

LEMMA ReassignJobs ==
    ASSUME NEW es \in SUBSET Entries, NEW n \in HeadRefs, IsFiniteSet(es)
    PROVE  JobsFor(es, n) \in SUBSET Jobs /\ IsFiniteSet(JobsFor(es, n))
<1> DEFINE S == {ReassignJob(e, n) : e \in es}
           f == [e \in es |-> ReassignJob(e, n)]
<1>1. S \in SUBSET Jobs
  BY DEF ReassignJob, Jobs
<1>2. f \in Surjection(es, S)
  BY DEF Surjection
<1>3. IsFiniteSet(S)
  BY <1>2, FS_Surjection
<1> QED
  BY <1>1, <1>3 DEF JobsFor

LEMMA CollectReAssignEffect ==
    ASSUME Types, NEW t \in Threads, CollectReAssign(t)
    PROVE  /\ th[t].pc = "collect" /\ Moved(t) /\ Returns(th'[t], th[t])
           /\ \E js \in SUBSET Jobs :
                /\ jobs' \in Seq(Jobs)
                /\ JobSet' = JobSet \cup (IF th[t].same = 0 THEN Range(HeadVectorJobs(th[t].head)) ELSE {}) \cup js
                /\ \A j \in js : \E i \in 1..2 : \E e \in th[t].clusters[i] : j = ReassignJob(e, th[t].ids[i])
           /\ \/ th[t].after = "append" /\ Release(th[t].head)
              \/ th[t].after # "append" /\ lock' = lock
           /\ UNCHANGED <<heads, nextHead, headVector, posting, keys, version, mergeLock, splitList, mergeList,
                          setting, searches, collections>>
<1> DEFINE h == th[t].head
           m == IF th[t].same = 0 THEN HeadVectorJobs(h) ELSE <<>>
           A == {ReassignJob(e, th[t].ids[1]) : e \in MayReassign(th[t].clusters[1])}
           B == {ReassignJob(e, th[t].ids[2]) : e \in MayReassign(th[t].clusters[2])}
<1>1. /\ th[t].pc = "collect" /\ SplitReturn(t)
      /\ \/ th[t].after = "append" /\ Release(th[t].head)
         \/ th[t].after # "append" /\ lock' = lock
      /\ UNCHANGED <<heads, nextHead, headVector, posting, keys, version, mergeLock, splitList, mergeList,
                     setting, searches, collections>>
  BY DEF CollectReAssign, index, store, lists, budgets
<1>2. PICK js \in UpTo(setting.reassigns, A \cup B) : \E q \in Orders(js) : jobs' = jobs \o m \o q
  BY DEF CollectReAssign
<1>3. PICK q \in Orders(js) : jobs' = jobs \o m \o q
  BY <1>2
<1>4. th[t] \in ThreadStates /\ ThreadOK(th[t], version)
  BY DEF Types
<1>5. \A i \in 1..2 : /\ th[t].ids[i] \in HeadRefs
                      /\ MayReassign(th[t].clusters[i]) \in SUBSET th[t].clusters[i]
                      /\ th[t].clusters[i] \in SUBSET Entries /\ IsFiniteSet(th[t].clusters[i])
  BY <1>4 DEF ThreadStates, ThreadOK, Added, MayReassign
<1>6. \A i \in 1..2 : IsFiniteSet(MayReassign(th[t].clusters[i]))
  BY <1>5, FS_Subset
<1>7. A \in SUBSET Jobs /\ IsFiniteSet(A) /\ B \in SUBSET Jobs /\ IsFiniteSet(B)
  <2>1. A = JobsFor(MayReassign(th[t].clusters[1]), th[t].ids[1]) /\ B = JobsFor(MayReassign(th[t].clusters[2]), th[t].ids[2])
    BY DEF JobsFor
  <2> HIDE DEF A, B
  <2> QED
    BY <1>5, <1>6, <2>1, ReassignJobs
<1>8. js \in SUBSET (A \cup B) /\ js \in SUBSET Jobs
  BY <1>7 DEF UpTo
<1>9. \A j \in js : \E i \in 1..2 : \E e \in th[t].clusters[i] : j = ReassignJob(e, th[t].ids[i])
  BY <1>5, <1>8
<1> HIDE DEF A, B
<1>10. IsFiniteSet(js)
  <2>1. IsFiniteSet(A \cup B)
    BY <1>7, FS_Union
  <2> QED
    BY <1>8, <2>1, FS_Subset
<1>11. q \in Seq(Jobs) /\ Range(q) \subseteq js
  BY <1>8, <1>10, OrdersAre
<1>12. h \in HeadIds
  BY <1>1, <1>4 DEF ThreadOK, PlaceInv, SplitPCs
<1>13. m \in Seq(Jobs) /\ Range(m) = IF th[t].same = 0 THEN Range(HeadVectorJobs(h)) ELSE {}
  <2>1. CASE th[t].same = 0
    BY <1>12, <2>1, HeadVectorJobsAre
  <2>2. CASE th[t].same # 0
    BY <2>2 DEF Range
  <2> QED
    BY <2>1, <2>2
<1> HIDE DEF m, h
<1>14. jobs' \in Seq(Jobs) /\ JobSet' = JobSet \cup Range(m) \cup Range(q)
  BY <1>3, <1>11, <1>13, JobsJoined DEF Types
<1>15. \E gs \in SUBSET Jobs :
         /\ jobs' \in Seq(Jobs)
         /\ JobSet' = JobSet \cup (IF th[t].same = 0 THEN Range(HeadVectorJobs(h)) ELSE {}) \cup gs
         /\ \A j \in gs : \E i \in 1..2 : \E e \in th[t].clusters[i] : j = ReassignJob(e, th[t].ids[i])
  <2>1. Range(q) \in SUBSET Jobs
    BY <1>8, <1>11
  <2> QED
    BY <1>9, <1>11, <1>13, <1>14, <2>1
<1>16. Moved(t) /\ Returns(th'[t], th[t])
  BY <1>1, SplitReturnEffect
<1> QED
  BY <1>1, <1>15, <1>16 DEF h

\* MergePostings.
LEMMA MergeBusyEffect ==
    ASSUME Types, NEW t \in Threads, MergeBusy(t)
    PROVE  /\ th[t].pc = "merge" /\ jobs' = Append(jobs, MergeJob(th[t].head, th[t].reassign)) /\ Moved(t) /\ th'[t] = Idle
           /\ UNCHANGED <<heads, nextHead, headVector, posting, keys, version, lock, mergeLock, splitList, mergeList,
                          setting, searches, collections>>
BY FinishEffect DEF MergeBusy, index, store, lists, budgets

LEMMA MergeStartEffect ==
    ASSUME Types, NEW t \in Threads, MergeStart(t)
    PROVE  /\ th[t].pc = "merge" /\ mergeLock = None /\ mergeLock' = t /\ Moved(t) /\ GoesTo(th'[t], th[t], "mergelock")
           /\ UNCHANGED <<heads, nextHead, headVector, posting, keys, version, jobs, lock, splitList, mergeList,
                          setting, searches, collections>>
<1>1. "mergelock" \in PCs
  BY DEF PCs
<1> QED
  BY <1>1, GotoEffect DEF MergeStart, index, store, lists, budgets

LEMMA MergeHeadGoneEffect ==
    ASSUME Types, NEW t \in Threads, MergeHeadGone(t)
    PROVE  /\ th[t].pc = "mergelock" /\ th[t].head \notin heads /\ mergeLock' = None /\ Moved(t) /\ th'[t] = Idle
           /\ UNCHANGED <<heads, nextHead, headVector, posting, keys, version, jobs, lock, splitList, mergeList,
                          setting, searches, collections>>
BY FinishEffect DEF MergeHeadGone, index, store, lists, budgets

LEMMA MergeNotNeededEffect ==
    ASSUME Types, NEW t \in Threads, MergeNotNeeded(t)
    PROVE  /\ th[t].pc = "mergelock" /\ Free(th[t].head) /\ th[t].head \in heads
           /\ posting' = [posting EXCEPT ![th[t].head] = Live(th[t].head)]
           /\ mergeList' = mergeList \ {th[t].head} /\ mergeLock' = None /\ Moved(t) /\ th'[t] = Idle
           /\ UNCHANGED <<heads, nextHead, headVector, keys, version, jobs, lock, splitList, setting, searches, collections>>
BY FinishEffect DEF MergeNotNeeded, index, budgets

LEMMA MergeReadEffect ==
    ASSUME Types, NEW t \in Threads, MergeRead(t)
    PROVE  /\ th[t].pc = "mergelock" /\ Free(th[t].head) /\ th[t].head \in heads /\ Acquire(t, th[t].head)
           /\ Cardinality(Live(th[t].head)) <= MergeThreshold
           /\ Moved(t) /\ th'[t].pc = "mergewith" /\ th'[t].current = Live(th[t].head) /\ th'[t].survivor = th[t].survivor
           /\ th'[t].todo = th[t].todo /\ SameVector(th'[t], th[t]) /\ SameCall(th'[t], th[t]) /\ SameSplit(th'[t], th[t])
           /\ UNCHANGED <<heads, nextHead, headVector, posting, keys, version, jobs, mergeLock, splitList, mergeList,
                          setting, searches, collections>>
<1> DEFINE L == Live(th[t].head)
           q == [th[t] EXCEPT !.pc = "mergewith", !.current = L]
<1>1. /\ th[t].pc = "mergelock" /\ Free(th[t].head) /\ th[t].head \in heads /\ Acquire(t, th[t].head)
      /\ Cardinality(Live(th[t].head)) <= MergeThreshold
      /\ UNCHANGED <<heads, nextHead, headVector, posting, keys, version, jobs, mergeLock, splitList, mergeList,
                     setting, searches, collections>>
  BY DEF MergeRead, index, store, lists, budgets
<1>2. th \in [Threads -> ThreadStates] /\ th[t] \in ThreadStates /\ L \in SUBSET Entries
  BY <1>1 DEF Types, Live
<1>3. th' = [th EXCEPT ![t].pc = "mergewith", ![t].current = L]
  BY DEF MergeRead
<1>4. L = Live(th[t].head)
  OBVIOUS
<1> HIDE DEF L
<1>5. th' = [th EXCEPT ![t] = q]
  BY <1>2, <1>3
<1>6. /\ q \in ThreadStates /\ q.pc = "mergewith" /\ q.current = L /\ q.survivor = th[t].survivor /\ q.todo = th[t].todo
      /\ SameVector(q, th[t]) /\ SameCall(q, th[t]) /\ SameSplit(q, th[t])
  BY <1>2 DEF ThreadStates, PCs, SameVector, SameCall, SameSplit
<1> HIDE DEF q
<1>7. Moved(t) /\ th'[t] = q
  BY <1>2, <1>5, <1>6, ThreadBecomes
<1> QED
  BY <1>1, <1>4, <1>6, <1>7

LEMMA MergePickEffect ==
    ASSUME Types, NEW t \in Threads, NEW o \in HeadIds, MergePick(t, o)
    PROVE  /\ th[t].pc = "mergewith" /\ o \in heads /\ o # th[t].head /\ o \notin mergeList
           /\ Cardinality(th[t].current) + Size(o) < Limit
           /\ Moved(t) /\ th'[t].pc = "mergeother" /\ th'[t].survivor = o /\ th'[t].current = th[t].current
           /\ th'[t].todo = th[t].todo /\ SameVector(th'[t], th[t]) /\ SameCall(th'[t], th[t]) /\ SameSplit(th'[t], th[t])
           /\ StillAll
<1> DEFINE q == [th[t] EXCEPT !.pc = "mergeother", !.survivor = o]
<1>1. th[t].pc = "mergewith" /\ o \in heads /\ o # th[t].head /\ o \notin mergeList
      /\ Cardinality(th[t].current) + Size(o) < Limit /\ StillAll
  BY DEF MergePick, StillAll, index, store, lists, budgets
<1>2. th \in [Threads -> ThreadStates] /\ th[t] \in ThreadStates
  BY DEF Types
<1>3. th' = [th EXCEPT ![t] = q]
  BY <1>2 DEF MergePick
<1>4. /\ q \in ThreadStates /\ q.pc = "mergeother" /\ q.survivor = o /\ q.current = th[t].current /\ q.todo = th[t].todo
      /\ SameVector(q, th[t]) /\ SameCall(q, th[t]) /\ SameSplit(q, th[t])
  BY <1>2 DEF ThreadStates, PCs, HeadRefs, SameVector, SameCall, SameSplit
<1> HIDE DEF q
<1>5. Moved(t) /\ th'[t] = q
  BY <1>2, <1>3, <1>4, ThreadBecomes
<1> QED
  BY <1>1, <1>4, <1>5

LEMMA MergeOtherGoneEffect ==
    ASSUME Types, NEW t \in Threads, MergeOtherGone(t)
    PROVE  th[t].pc = "mergeother" /\ Moved(t) /\ GoesTo(th'[t], th[t], "mergewith") /\ StillAll
<1>1. "mergewith" \in PCs
  BY DEF PCs
<1> QED
  BY <1>1, GotoEffect DEF MergeOtherGone, StillAll, index, store, lists, budgets

LEMMA MergeNoNeighbourEffect ==
    ASSUME Types, NEW t \in Threads, MergeNoNeighbour(t)
    PROVE  /\ th[t].pc = "mergewith" /\ posting' = [posting EXCEPT ![th[t].head] = th[t].current]
           /\ mergeList' = mergeList \ {th[t].head} /\ Release(th[t].head) /\ mergeLock' = None /\ Moved(t) /\ th'[t] = Idle
           /\ UNCHANGED <<heads, nextHead, headVector, keys, version, jobs, splitList, setting, searches, collections>>
BY FinishEffect DEF MergeNoNeighbour, index, budgets

WithSurvivor(r, o) == [r EXCEPT !.survivor = o]
WithCurrent(r, es) == [r EXCEPT !.current = es]

LEMMA SurvivorSet ==
    ASSUME NEW r \in ThreadStates, NEW o \in HeadRefs
    PROVE  LET q == WithSurvivor(r, o) IN
           /\ q \in ThreadStates /\ q.pc = r.pc /\ q.survivor = o /\ q.current = r.current /\ q.todo = r.todo
           /\ SameVector(q, r) /\ SameCall(q, r) /\ SameSplit(q, r)
<1>1. WithSurvivor(r, o) \in ThreadStates
  BY DEF WithSurvivor, ThreadStates
<1> QED
  BY <1>1 DEF WithSurvivor, ThreadStates, SameVector, SameCall, SameSplit

LEMMA CurrentSet ==
    ASSUME NEW r \in ThreadStates, NEW es \in SUBSET Entries
    PROVE  LET q == WithCurrent(r, es) IN
           /\ q \in ThreadStates /\ q.pc = r.pc /\ q.survivor = r.survivor /\ q.current = es /\ q.todo = r.todo
           /\ SameVector(q, r) /\ SameCall(q, r) /\ SameSplit(q, r)
<1>1. WithCurrent(r, es) \in ThreadStates
  BY DEF WithCurrent, ThreadStates
<1> QED
  BY <1>1 DEF WithCurrent, ThreadStates, SameVector, SameCall, SameSplit

LEMMA MergeWithEffect ==
    ASSUME Types, NEW t \in Threads, MergeWith(t)
    PROVE  /\ th[t].pc = "mergeother" /\ th[t].survivor \in heads /\ CanLockOther(t)
           /\ Release(th[t].head) /\ mergeLock' = None /\ Moved(t)
           /\ \E gone, kept \in HeadIds :
                /\ (gone = th[t].head /\ kept = th[t].survivor) \/ (gone = th[t].survivor /\ kept = th[t].head)
                /\ heads' = heads \ {gone} /\ keys' = keys \ {gone}
                /\ posting' = [posting EXCEPT ![kept] = th[t].current \cup Additional(t, th[t].survivor), ![gone] = {}]
                /\ th'[t].pc = "mergereassign" /\ th'[t].survivor = kept /\ th'[t].current = posting[gone]
                /\ th'[t].ids = <<gone, NoHead>>
           /\ th'[t].todo = th[t].todo /\ SameVector(th'[t], th[t]) /\ SameCall(th'[t], th[t])
           /\ th'[t].clusters = th[t].clusters /\ th'[t].same = th[t].same /\ th'[t].k = th[t].k
           /\ UNCHANGED <<nextHead, headVector, version, jobs, splitList, mergeList, setting, searches, collections>>
<1> DEFINE h == th[t].head
           o == th[t].survivor
           keepsThis == Cardinality(th[t].current) > Cardinality(Live(o))
           gone == IF keepsThis THEN o ELSE h
           kept == IF keepsThis THEN h ELSE o
           ids == <<gone, NoHead>>
           es == posting[gone]
           a == AtPlace(th[t], "mergereassign")
           q == WithCurrent(WithIds(WithSurvivor(a, kept), ids), es)
<1>1. /\ th[t].pc = "mergeother" /\ th[t].survivor \in heads /\ CanLockOther(t)
      /\ Release(th[t].head) /\ mergeLock' = None
      /\ UNCHANGED <<nextHead, headVector, version, jobs, splitList, mergeList, setting, searches, collections>>
  BY DEF MergeWith, lists, budgets
<1>2. /\ heads' = heads \ {gone} /\ keys' = keys \ {gone}
      /\ posting' = [posting EXCEPT ![kept] = th[t].current \cup Additional(t, th[t].survivor), ![gone] = {}]
      /\ th' = [th EXCEPT ![t].pc = "mergereassign", ![t].survivor = kept, ![t].ids = ids, ![t].current = es]
  BY DEF MergeWith
<1>3. th \in [Threads -> ThreadStates] /\ th[t] \in ThreadStates /\ "mergereassign" \in PCs /\ h \in HeadIds /\ o \in HeadIds
  BY <1>1 DEF Types, PCs, ThreadOK, PlaceInv, MergePCs
<1>4. /\ gone \in HeadIds /\ kept \in HeadIds /\ ((gone = h /\ kept = o) \/ (gone = o /\ kept = h))
      /\ es \in SUBSET Entries /\ es = posting[gone] /\ ids = <<gone, NoHead>> /\ ids \in [1..2 -> HeadRefs]
  <2>1. gone \in HeadIds /\ kept \in HeadIds /\ ((gone = h /\ kept = o) \/ (gone = o /\ kept = h))
    BY <1>3
  <2> HIDE DEF gone, kept
  <2> QED
    BY <2>1 DEF Types, HeadRefs
<1> HIDE DEF gone, kept, ids, es
<1>5. th' = [th EXCEPT ![t] = q]
  BY ONLY <1>2, <1>3 DEF q, a, AtPlace, WithSurvivor, WithIds, WithCurrent
<1>6. a \in ThreadStates /\ a.pc = "mergereassign" /\ SameSplit(a, th[t]) /\ SameRest(a, th[t])
  BY <1>3, PlaceSet
<1> HIDE DEF a
<1> DEFINE w == WithSurvivor(a, kept)
           x == WithIds(w, ids)
<1>7. /\ w \in ThreadStates /\ w.pc = a.pc /\ w.survivor = kept /\ w.todo = a.todo
      /\ SameVector(w, a) /\ SameCall(w, a) /\ SameSplit(w, a)
  BY <1>4, <1>6, SurvivorSet DEF HeadRefs
<1> HIDE DEF w
<1>8. /\ x \in ThreadStates /\ x.pc = w.pc /\ x.ids = ids /\ x.clusters = w.clusters /\ x.k = w.k /\ x.same = w.same
      /\ SameRest(x, w)
  BY <1>4, <1>7, IdsSet
<1>9. q = WithCurrent(x, es)
  BY DEF w
<1> HIDE DEF x, q
<1>10. /\ q \in ThreadStates /\ q.pc = x.pc /\ q.survivor = x.survivor /\ q.current = es /\ q.todo = x.todo
       /\ SameVector(q, x) /\ SameCall(q, x) /\ SameSplit(q, x)
  BY ONLY <1>4, <1>8, <1>9, CurrentSet
<1>11. Moved(t) /\ th'[t] = q
  BY <1>3, <1>5, <1>10, ThreadBecomes
<1>12. /\ q.pc = "mergereassign" /\ q.survivor = kept /\ q.current = es /\ q.ids = ids
       /\ q.todo = th[t].todo /\ SameVector(q, th[t]) /\ SameCall(q, th[t])
       /\ q.clusters = th[t].clusters /\ q.same = th[t].same /\ q.k = th[t].k
  BY ONLY <1>6, <1>7, <1>8, <1>10 DEF SameRest, SameSplit, SameVector, SameCall, SameMerge
<1>13. \E g, s \in HeadIds :
         /\ (g = th[t].head /\ s = th[t].survivor) \/ (g = th[t].survivor /\ s = th[t].head)
         /\ heads' = heads \ {g} /\ keys' = keys \ {g}
         /\ posting' = [posting EXCEPT ![s] = th[t].current \cup Additional(t, th[t].survivor), ![g] = {}]
         /\ th'[t].pc = "mergereassign" /\ th'[t].survivor = s /\ th'[t].current = posting[g]
         /\ th'[t].ids = <<g, NoHead>>
  <2>1. /\ gone \in HeadIds /\ kept \in HeadIds
        /\ (gone = th[t].head /\ kept = th[t].survivor) \/ (gone = th[t].survivor /\ kept = th[t].head)
        /\ heads' = heads \ {gone} /\ keys' = keys \ {gone}
        /\ posting' = [posting EXCEPT ![kept] = th[t].current \cup Additional(t, th[t].survivor), ![gone] = {}]
        /\ th'[t].pc = "mergereassign" /\ th'[t].survivor = kept /\ th'[t].current = posting[gone]
        /\ th'[t].ids = <<gone, NoHead>>
    <3>1. gone \in HeadIds /\ kept \in HeadIds /\ ((gone = th[t].head /\ kept = th[t].survivor) \/ (gone = th[t].survivor /\ kept = th[t].head))
      BY <1>4
    <3>2. /\ th'[t].pc = "mergereassign" /\ th'[t].survivor = kept /\ th'[t].current = posting[gone]
          /\ th'[t].ids = <<gone, NoHead>>
      BY ONLY <1>4, <1>11, <1>12
    <3> QED
      BY ONLY <1>2, <3>1, <3>2
  <2> QED
    BY ONLY <2>1
<1> QED
  BY <1>1, <1>11, <1>12, <1>13

LEMMA MergeReassignEffect ==
    ASSUME Types, NEW t \in Threads, MergeReassign(t)
    PROVE  /\ th[t].pc = "mergereassign" /\ mergeList' = mergeList \ {th[t].head} /\ Moved(t) /\ th'[t] = Idle
           /\ jobs' \in Seq(Jobs) /\ JobSet \subseteq JobSet'
           /\ \A j \in JobSet' \ JobSet : \/ \E e \in th[t].current : j = ReassignJob(e, th[t].survivor)
                                          \/ j \in Range(HeadVectorJobs(th[t].ids[1]))
           /\ UNCHANGED <<heads, nextHead, headVector, posting, keys, version, lock, mergeLock, splitList,
                          setting, searches, collections>>
<1> DEFINE es == {c \in th[t].current : c[2] < MaxVersion}
           A == JobsFor(es, th[t].survivor)
           m == HeadVectorJobs(th[t].ids[1])
<1>1. /\ th[t].pc = "mergereassign" /\ mergeList' = mergeList \ {th[t].head} /\ Finish(t)
      /\ UNCHANGED <<heads, nextHead, headVector, posting, keys, version, lock, mergeLock, splitList,
                     setting, searches, collections>>
  BY DEF MergeReassign, index, store, budgets
<1>2. Moved(t) /\ th'[t] = Idle
  BY <1>1, FinishEffect
<1>3. th[t] \in ThreadStates /\ ThreadOK(th[t], version) /\ jobs \in Seq(Jobs)
  BY DEF Types
<1>4. CASE ~th[t].reassign
  <2>1. jobs' = jobs /\ JobSet' = JobSet
    BY <1>4 DEF MergeReassign, JobSet
  <2> QED
    BY <1>1, <1>2, <1>3, <2>1
<1>5. CASE th[t].reassign
  <2>1. PICK js \in UpTo(setting.reassigns, A) : \E q \in Orders(js) : jobs' = jobs \o q \o m
    BY <1>5 DEF MergeReassign, JobsFor
  <2>2. PICK q \in Orders(js) : jobs' = jobs \o q \o m
    BY <2>1
  <2>3. es \in SUBSET Entries /\ es \in SUBSET th[t].current /\ IsFiniteSet(es) /\ th[t].survivor \in HeadRefs
    <3>1. th[t].current \in SUBSET Entries /\ IsFiniteSet(th[t].current) /\ th[t].survivor \in HeadRefs
      BY <1>3 DEF ThreadStates, ThreadOK, Added
    <3> QED
      BY <3>1, FS_Subset
  <2> HIDE DEF es
  <2>4. A \in SUBSET Jobs /\ IsFiniteSet(A)
    BY <2>3, ReassignJobs
  <2>5. js \in SUBSET A /\ js \in SUBSET Jobs
    BY <2>4 DEF UpTo
  <2>6. \A j \in js : \E e \in th[t].current : j = ReassignJob(e, th[t].survivor)
    BY <2>3, <2>5 DEF JobsFor
  <2> HIDE DEF A
  <2>7. IsFiniteSet(js)
    BY <2>4, <2>5, FS_Subset
  <2>8. q \in Seq(Jobs) /\ Range(q) \subseteq js
    BY <2>5, <2>7, OrdersAre
  <2>9. m \in Seq(Jobs)
    BY <1>1, <1>3, HeadVectorJobsAre DEF ThreadOK, PlaceInv
  <2>10. m = HeadVectorJobs(th[t].ids[1])
    OBVIOUS
  <2> HIDE DEF m
  <2>11. jobs' \in Seq(Jobs) /\ JobSet' = JobSet \cup Range(q) \cup Range(m)
    BY <1>3, <2>2, <2>8, <2>9, JobsJoined
  <2> QED
    BY <1>1, <1>2, <2>6, <2>8, <2>10, <2>11
<1> QED
  BY <1>4, <1>5

(***************************************************************************)
(* Types hold                                                              *)
(***************************************************************************)

\* A vector that was added is never forgotten.
Grows == \A v \in Vectors : version[v] # UNKNOWN => version'[v] # UNKNOWN

LEMMA AddedGrows ==
    ASSUME Grows, NEW es \in SUBSET Entries, Added(es, version)
    PROVE  Added(es, version')
BY DEF Grows, Added, Entries

LEMMA ThreadOKGrows ==
    ASSUME Grows, NEW r \in ThreadStates, ThreadOK(r, version)
    PROVE  ThreadOK(r, version')
<1>1. r.clusters[1] \in SUBSET Entries /\ r.clusters[2] \in SUBSET Entries /\ r.current \in SUBSET Entries
  BY DEF ThreadStates
<1>2. Added(r.clusters[1], version') /\ Added(r.clusters[2], version') /\ Added(r.current, version')
  BY <1>1, AddedGrows DEF ThreadOK
<1>3. Moves(r) => version'[r.vid] # UNKNOWN
  BY DEF ThreadOK, PlaceInv, Grows
<1> QED
  BY <1>2, <1>3 DEF ThreadOK

\* A step that moves one thread.
LEMMA TypesStep ==
    ASSUME Types, NEW t \in Threads, Moved(t), setting' = setting,
           heads' \subseteq keys' /\ keys' \subseteq HeadIds /\ nextHead' \in 0..MaxHeads,
           posting' \in [HeadIds -> SUBSET Entries],
           headVector' \in [HeadIds -> Vectors \cup {NoVector}],
           version' \in [Vectors -> Nat \cup {DELETED, UNKNOWN}],
           jobs' \in Seq(Jobs),
           lock' \in [0..(PoolSize - 1) -> Threads \cup {None}] /\ mergeLock' \in Threads \cup {None},
           splitList' \subseteq HeadIds /\ mergeList' \subseteq HeadIds,
           Grows, ThreadOK(th'[t], version'),
           \A h \in HeadIds : posting'[h] = posting[h] \/ Added(posting'[h], version'),
           \A h \in HeadIds : headVector'[h] = headVector[h] \/ version'[headVector'[h]] # UNKNOWN,
           \A j \in JobSet' : j \in JobSet \/ JobOK(j, version')
    PROVE  Types'
<1>1. \A u \in Threads : ThreadOK(th'[u], version')
  <2>1. \A u \in Threads : u # t => th'[u] = th[u] /\ th[u] \in ThreadStates /\ ThreadOK(th[u], version)
    BY DEF Types, Moved
  <2> QED
    BY <2>1, ThreadOKGrows
<1>2. \A h \in HeadIds : Added(posting'[h], version')
  <2>1. \A h \in HeadIds : Added(posting[h], version')
    BY AddedGrows DEF Types
  <2> QED
    BY <2>1
<1>3. \A h \in HeadIds : headVector'[h] # NoVector => version'[headVector'[h]] # UNKNOWN
  BY DEF Types, Grows
<1>4. \A j \in JobSet' : JobOK(j, version')
  <2>1. \A j \in JobSet : j \in Jobs
    BY DEF Types, JobSet
  <2>2. \A j \in JobSet : JobOK(j, version')
    BY <2>1, JobKinds DEF Types, JobOK, Grows, Entries
  <2> QED
    BY <2>2
<1>5. th' \in [Threads -> ThreadStates] /\ setting' \in Settings
  BY DEF Moved, Types
<1> QED
  BY <1>1, <1>2, <1>3, <1>4, <1>5 DEF Types

\* A step that touches neither the store nor the head index.
LEMMA TypesQuietStep ==
    ASSUME Types, NEW t \in Threads, Moved(t), UNCHANGED <<setting, heads, keys, nextHead, posting, headVector, version>>,
           jobs' \in Seq(Jobs),
           lock' \in [0..(PoolSize - 1) -> Threads \cup {None}] /\ mergeLock' \in Threads \cup {None},
           splitList' \subseteq HeadIds /\ mergeList' \subseteq HeadIds,
           ThreadOK(th'[t], version),
           \A j \in JobSet' : j \in JobSet \/ JobOK(j, version)
    PROVE  Types'
<1>1. Grows
  BY DEF Grows
<1>2. /\ heads' \subseteq keys' /\ keys' \subseteq HeadIds /\ nextHead' \in 0..MaxHeads
      /\ posting' \in [HeadIds -> SUBSET Entries]
      /\ headVector' \in [HeadIds -> Vectors \cup {NoVector}]
      /\ version' \in [Vectors -> Nat \cup {DELETED, UNKNOWN}]
  BY DEF Types
<1> QED
  BY <1>1, <1>2, TypesStep

LEMMA LockTypes ==
    ASSUME Types, NEW t \in Threads, NEW h, Acquire(t, h) \/ Release(h) \/ lock' = lock
    PROVE  lock' \in [0..(PoolSize - 1) -> Threads \cup {None}]
BY DEF Types, Acquire, Release

LEMMA IdleOK == ThreadOK(Idle, version) /\ ThreadOK(Idle, version')
BY IdleFields, FS_EmptySet DEF ThreadOK, PlaceInv, Moves, Added, MovePCs, SplitPCs, MergePCs

\* A thread that goes on with what it has.
LEMMA GoesOK ==
    ASSUME NEW r \in ThreadStates, NEW q \in ThreadStates, NEW map, ThreadOK(r, map), PlaceInv(q),
           Moves(q) => Moves(r) /\ q.vid = r.vid,
           q.clusters = r.clusters \/ q.clusters = <<{}, {}>>, q.current = r.current
    PROVE  ThreadOK(q, map)
<1>1. Added({}, map)
  BY FS_EmptySet DEF Added
<1> QED
  BY <1>1 DEF ThreadOK

LEMMA TypesInit ==
    ASSUME Init
    PROVE  Types
<1>1. setting \in Setting /\ MaxHeads \in Nat /\ 2 <= MaxHeads /\ 0..1 \subseteq HeadIds
  <2>1. setting \in Setting
    BY SettingsAssumption DEF Init
  <2>2. setting.heads \in 2..MaxHeads
    BY <2>1 DEF Setting
  <2> QED
    BY <2>1, <2>2, BoundAssumption DEF HeadIds
<1>2. /\ \A h \in 0..1 : setting.posting[h] \in SUBSET Vectors /\ setting.headVector[h] \in Vectors \cup {NoVector}
      /\ \A h \in HeadIds : posting[h] = IF h \in 0..1 THEN setting.posting[h] \X {0} ELSE {}
      /\ \A h \in HeadIds : headVector[h] = IF h \in 0..1 THEN setting.headVector[h] ELSE NoVector
      /\ DOMAIN posting = HeadIds /\ DOMAIN headVector = HeadIds
  BY <1>1 DEF Init, Setting
<1>3. posting \in [HeadIds -> SUBSET Entries] /\ headVector \in [HeadIds -> Vectors \cup {NoVector}]
  <2>1. posting = [h \in HeadIds |-> posting[h]] /\ headVector = [h \in HeadIds |-> headVector[h]]
    BY DEF Init
  <2>2. \A h \in HeadIds : posting[h] \in SUBSET Entries /\ headVector[h] \in Vectors \cup {NoVector}
    BY <1>2 DEF Entries
  <2> QED
    BY <2>1, <2>2
<1>4. version \in [Vectors -> Nat \cup {DELETED, UNKNOWN}]
  BY DEF Init
<1>5. /\ \A h \in 0..1 : \A v \in setting.posting[h] : v \in Vectors /\ version[v] # UNKNOWN
      /\ \A h \in 0..1 : setting.headVector[h] # NoVector => version[setting.headVector[h]] # UNKNOWN
  BY <1>2 DEF Init, UNKNOWN
<1>6. \A h \in HeadIds : Added(posting[h], version)
  <2> TAKE h \in HeadIds
  <2>1. CASE h \in 0..1
    <3>1. IsFiniteSet(setting.posting[h]) /\ IsFiniteSet({0})
      BY <1>2, <2>1, BoundAssumption, FS_Subset, FS_Singleton
    <3>2. IsFiniteSet(setting.posting[h] \X {0})
      BY <3>1, FS_Product
    <3> QED
      BY <1>2, <1>5, <2>1, <3>2 DEF Added
  <2>2. CASE h \notin 0..1
    BY <1>2, <2>2, FS_EmptySet DEF Added
  <2> QED
    BY <2>1, <2>2
<1>7. \A h \in HeadIds : headVector[h] # NoVector => version[headVector[h]] # UNKNOWN
  BY <1>2, <1>5
<1>8. /\ th = [t \in Threads |-> Idle] /\ Idle \in ThreadStates /\ jobs = <<>> /\ JobSet = {}
  BY IdleFields DEF Init, JobSet
<1>9. th \in [Threads -> ThreadStates] /\ \A t \in Threads : ThreadOK(th[t], version)
  BY <1>8, IdleOK
<1>10. /\ setting \in Settings /\ heads \subseteq keys /\ keys \subseteq HeadIds /\ nextHead \in 0..MaxHeads
       /\ jobs \in Seq(Jobs)
       /\ lock \in [0..(PoolSize - 1) -> Threads \cup {None}] /\ mergeLock \in Threads \cup {None}
       /\ splitList \subseteq HeadIds /\ mergeList \subseteq HeadIds
  BY <1>1 DEF Init
<1> QED
  BY <1>3, <1>4, <1>6, <1>7, <1>8, <1>9, <1>10 DEF Types

LEMMA JobsSame ==
    ASSUME jobs' = jobs
    PROVE  JobSet' = JobSet
BY DEF JobSet

\* A step that changes places and locks only.
LEMMA TypesLockStep ==
    ASSUME Types, NEW t \in Threads, Moved(t),
           UNCHANGED <<setting, heads, keys, nextHead, posting, headVector, version, jobs, splitList, mergeList>>,
           lock' \in [0..(PoolSize - 1) -> Threads \cup {None}] /\ mergeLock' \in Threads \cup {None},
           ThreadOK(th'[t], version)
    PROVE  Types'
<1>1. /\ jobs' \in Seq(Jobs) /\ splitList' \subseteq HeadIds /\ mergeList' \subseteq HeadIds
      /\ \A j \in JobSet' : j \in JobSet \/ JobOK(j, version)
  BY JobsSame DEF Types
<1> QED
  BY <1>1, TypesQuietStep

\* A thread that returns from Split.
LEMMA ReturnsOK ==
    ASSUME NEW r \in ThreadStates, NEW q \in ThreadStates, ThreadOK(r, version), r.pc \in SplitPCs, Returns(q, r)
    PROVE  ThreadOK(q, version)
<1>1. CASE q = Idle
  BY <1>1, IdleOK
<1>2. CASE q # Idle
  <2>1. /\ q.pc = r.after /\ q.pc \in {"append", "next", "gc"} /\ q.vid = r.vid /\ q.head = r.head
        /\ q.clusters = <<{}, {}>> /\ q.current = r.current
    BY <1>2, IdleFields DEF Returns, SameVector, SameCall, SameSplit, SameMerge, ThreadStates
  <2>2. PlaceInv(q) /\ (Moves(q) => Moves(r))
    BY <2>1 DEF ThreadOK, PlaceInv, Moves, MovePCs, SplitPCs, MergePCs
  <2> QED
    BY <2>1, <2>2, GoesOK
<1> QED
  BY <1>1, <1>2

LEMMA TypesClient ==
    ASSUME Types, NEW t \in Threads, ClientStep(t)
    PROVE  Types'
<1>1. ASSUME NEW v \in Vectors, AddIndex(t, v) PROVE Types'
  <2>1. /\ version[v] = UNKNOWN /\ version' = [version EXCEPT ![v] = 0] /\ Moved(t)
        /\ th'[t].pc = "next" /\ th'[t].vid = v /\ SameSplit(th'[t], Idle) /\ SameMerge(th'[t], Idle)
        /\ UNCHANGED <<heads, nextHead, headVector, posting, keys, jobs, lock, mergeLock, splitList, mergeList, setting>>
    BY <1>1, AddIndexEffect
  <2>2. Grows /\ version' \in [Vectors -> Nat \cup {DELETED, UNKNOWN}] /\ version'[v] = 0
    BY <2>1 DEF Types, Grows, UNKNOWN
  <2>3. ThreadOK(th'[t], version')
    BY <2>1, <2>2, IdleFields, FS_EmptySet DEF ThreadOK, Added, SameSplit, SameMerge, UNKNOWN, PlaceInv, Moves, MovePCs, SplitPCs, MergePCs
  <2>4. /\ heads' \subseteq keys' /\ keys' \subseteq HeadIds /\ nextHead' \in 0..MaxHeads
        /\ posting' \in [HeadIds -> SUBSET Entries]
        /\ headVector' \in [HeadIds -> Vectors \cup {NoVector}] /\ jobs' \in Seq(Jobs)
        /\ lock' \in [0..(PoolSize - 1) -> Threads \cup {None}] /\ mergeLock' \in Threads \cup {None}
        /\ splitList' \subseteq HeadIds /\ mergeList' \subseteq HeadIds
        /\ JobSet' = JobSet /\ setting' = setting /\ posting' = posting /\ headVector' = headVector
    BY <2>1, JobsSame DEF Types
  <2> QED
    BY <2>1, <2>2, <2>3, <2>4, TypesStep
<1>2. ASSUME NEW v \in Vectors, DeleteIndex(t, v) PROVE Types'
  <2>1. /\ version[v] >= 0 /\ version' = [version EXCEPT ![v] = DELETED] /\ th' = th
        /\ UNCHANGED <<heads, nextHead, headVector, posting, keys, jobs, lock, mergeLock, splitList, mergeList, setting>>
    BY <1>2, DeleteIndexEffect
  <2>2. Grows /\ version' \in [Vectors -> Nat \cup {DELETED, UNKNOWN}]
    BY <2>1 DEF Types, Grows, UNKNOWN, DELETED
  <2>3. ThreadOK(th'[t], version') /\ Moved(t)
    BY <2>1, <2>2, ThreadOKGrows DEF Types, Moved
  <2>4. /\ heads' \subseteq keys' /\ keys' \subseteq HeadIds /\ nextHead' \in 0..MaxHeads
        /\ posting' \in [HeadIds -> SUBSET Entries]
        /\ headVector' \in [HeadIds -> Vectors \cup {NoVector}] /\ jobs' \in Seq(Jobs)
        /\ lock' \in [0..(PoolSize - 1) -> Threads \cup {None}] /\ mergeLock' \in Threads \cup {None}
        /\ splitList' \subseteq HeadIds /\ mergeList' \subseteq HeadIds
        /\ JobSet' = JobSet /\ setting' = setting /\ posting' = posting /\ headVector' = headVector
    BY <2>1, JobsSame DEF Types
  <2> QED
    BY <2>1, <2>2, <2>3, <2>4, TypesStep
<1>3. ASSUME NEW h \in HeadIds, SearchIndex(t, h) PROVE Types'
  <2>1. /\ mergeList' = mergeList \cup {h} /\ jobs' = Append(jobs, MergeJob(h, FALSE)) /\ th' = th
        /\ UNCHANGED <<heads, nextHead, headVector, posting, keys, version, lock, mergeLock, splitList, setting>>
    BY <1>3, SearchIndexEffect
  <2>2. MergeJob(h, FALSE) \in Jobs /\ JobOK(MergeJob(h, FALSE), version)
    BY DEF MergeJob, Jobs, JobOK
  <2>3. jobs' \in Seq(Jobs) /\ JobSet' = JobSet \cup {MergeJob(h, FALSE)}
    BY <2>1, <2>2, JobsAppended DEF Types
  <2>4. /\ lock' \in [0..(PoolSize - 1) -> Threads \cup {None}] /\ mergeLock' \in Threads \cup {None}
        /\ splitList' \subseteq HeadIds /\ mergeList' \subseteq HeadIds /\ ThreadOK(th'[t], version) /\ Moved(t)
    BY <2>1 DEF Types, Moved
  <2> QED
    BY <2>1, <2>2, <2>3, <2>4, TypesQuietStep
<1>4. CASE ForceGC(t)
  <2>1. /\ Moved(t) /\ GoesTo(th'[t], Idle, "gc")
        /\ UNCHANGED <<heads, nextHead, headVector, posting, keys, version, jobs, lock, mergeLock, splitList, mergeList, setting>>
    BY <1>4, ForceGCEffect
  <2>2. ThreadOK(th'[t], version)
    BY <2>1, IdleFields, FS_EmptySet DEF ThreadOK, Added, PlaceInv, Moves, MovePCs, SplitPCs, MergePCs, GoesTo, SameVector, SameCall, SameSplit, SameMerge
  <2>3. lock' \in [0..(PoolSize - 1) -> Threads \cup {None}] /\ mergeLock' \in Threads \cup {None}
    BY <2>1 DEF Types
  <2> QED
    BY <2>1, <2>2, <2>3, TypesLockStep
<1> QED
  BY <1>1, <1>2, <1>3, <1>4 DEF ClientStep

LEMMA TypesAppend ==
    ASSUME Types, NEW t \in Threads,
           \/ TakeJob(t) \/ CollectNext(t)
           \/ NextSelection(t) \/ HeadMiss(t) \/ AppendPosting(t) \/ CheckSize(t)
           \/ SelectHeads(t) \/ RecheckVersion(t) \/ Increment(t)
    PROVE  Types'
<1>1. /\ th[t] \in ThreadStates /\ ThreadOK(th[t], version)
      /\ lock \in [0..(PoolSize - 1) -> Threads \cup {None}] /\ mergeLock \in Threads \cup {None}
  BY DEF Types
<1>2. Moved(t) => th'[t] \in ThreadStates
  BY DEF Moved
<1>3. CASE TakeJob(t)
  <2> DEFINE j == Head(jobs)
  <2>1. j \in Jobs /\ j \in JobSet /\ JobOK(j, version) /\ jobs \in Seq(Jobs)
    BY <1>3, TakeJobEffect, HeadOfJobs DEF Types
  <2> HIDE DEF j
  <2>2. /\ jobs # <<>> /\ jobs' = Tail(jobs) /\ Moved(t)
        /\ UNCHANGED <<heads, nextHead, headVector, posting, keys, version, lock, mergeLock, splitList, mergeList, setting>>
    BY <1>3, TakeJobEffect
  <2>3. /\ SameSplit(th'[t], Idle) /\ SameMerge(th'[t], Idle) /\ th'[t].after = "idle"
        /\ \/ j.kind = "split" /\ th'[t].pc = "split" /\ th'[t].head = j.head
           \/ j.kind = "merge" /\ th'[t].pc = "merge" /\ th'[t].head = j.head
           \/ j.kind = "reassign" /\ th'[t].pc = "reassign" /\ th'[t].vid = j.entry[1]
    BY <1>3, TakeJobEffect DEF j
  <2>4. j.kind \in {"split", "merge"} => j.head \in HeadIds
    BY <2>1, JobKinds
  <2>5. j.kind = "reassign" => j.entry[1] \in Vectors /\ version[j.entry[1]] # UNKNOWN
    BY <2>1, JobKinds DEF Entries, JobOK
  <2>6. PlaceInv(th'[t]) /\ (Moves(th'[t]) => version[th'[t].vid] # UNKNOWN)
    BY <2>3, <2>4, <2>5 DEF PlaceInv, Moves, MovePCs, SplitPCs, MergePCs
  <2>7. ThreadOK(th'[t], version)
    BY <2>3, <2>6, IdleFields, FS_EmptySet DEF ThreadOK, Added, SameSplit, SameMerge
  <2>8. jobs' \in Seq(Jobs) /\ JobSet' \subseteq JobSet
    BY <2>1, <2>2, JobTaken
  <2>9. splitList' \subseteq HeadIds /\ mergeList' \subseteq HeadIds
    BY <2>2 DEF Types
  <2> QED
    BY <1>1, <2>2, <2>7, <2>8, <2>9, TypesQuietStep
<1>4. CASE CollectNext(t)
  <2>1. /\ Moved(t)
        /\ UNCHANGED <<heads, nextHead, headVector, posting, keys, version, jobs, lock, mergeLock, splitList, mergeList, setting>>
    BY <1>4, CollectNextEffect
  <2>2. ThreadOK(th'[t], version)
    <3>1. CASE th'[t] = Idle
      BY <3>1, IdleOK
    <3>2. CASE th'[t] # Idle
      <4>1. /\ th'[t].head \in HeadIds /\ th'[t].after = "gc" /\ th'[t].pc \in {"split", "gc"}
            /\ SameSplit(th'[t], Idle) /\ SameMerge(th'[t], Idle)
        BY <1>4, <3>2, CollectNextEffect
      <4> QED
        BY <4>1, IdleFields, FS_EmptySet DEF ThreadOK, Added, SameSplit, SameMerge, PlaceInv, Moves, MovePCs, SplitPCs, MergePCs
    <3> QED
      BY <3>1, <3>2
  <2> QED
    BY <1>1, <2>1, <2>2, TypesLockStep
<1>5. CASE NextSelection(t)
  <2>1. Moved(t) /\ StillAll
    BY <1>5, NextSelectionEffect
  <2>2. ThreadOK(th'[t], version)
    <3>1. CASE th'[t] = Idle
      BY <3>1, IdleOK
    <3>2. CASE th'[t] # Idle
      <4>1. /\ th[t].pc = "next" /\ th'[t].pc = "append" /\ th'[t].head \in th[t].todo
            /\ SameVector(th'[t], th[t]) /\ SameSplit(th'[t], th[t]) /\ SameMerge(th'[t], th[t])
        BY <1>5, <3>2, NextSelectionEffect
      <4>2. th'[t].head \in HeadIds
        BY <1>1, <4>1 DEF ThreadStates
      <4>3. PlaceInv(th'[t]) /\ Moves(th[t]) /\ th'[t].vid = th[t].vid
        BY <1>1, <4>1, <4>2 DEF ThreadOK, SameVector, PlaceInv, Moves, MovePCs, SplitPCs, MergePCs
      <4> QED
        BY <1>1, <1>2, <2>1, <4>1, <4>3, GoesOK DEF SameSplit, SameMerge
    <3> QED
      BY <3>1, <3>2
  <2> QED
    BY <1>1, <2>1, <2>2, TypesLockStep DEF StillAll
<1>6. CASE HeadMiss(t)
  <2> DEFINE j == ReassignJob(<<th[t].vid, th[t].ver>>, th[t].head)
  <2>1. /\ th[t].pc = "append" /\ Moved(t) /\ GoesTo(th'[t], th[t], "next") /\ (jobs' = jobs \/ jobs' = Append(jobs, j))
        /\ UNCHANGED <<heads, nextHead, headVector, posting, keys, version, lock, mergeLock, splitList, mergeList, setting>>
    BY <1>6, HeadMissEffect
  <2>2. j \in Jobs /\ JobOK(j, version)
    <3>1. th[t].vid \in Vectors /\ version[th[t].vid] # UNKNOWN /\ th[t].ver \in Nat /\ th[t].head \in HeadRefs
      BY <1>1, <2>1 DEF ThreadOK, ThreadStates, PlaceInv, Moves, MovePCs, SplitPCs, MergePCs
    <3> QED
      BY <3>1 DEF ReassignJob, Jobs, JobOK, Entries
  <2> HIDE DEF j
  <2>3. jobs' \in Seq(Jobs) /\ JobSet' \subseteq JobSet \cup {j}
    BY <2>1, <2>2, JobsAppended, JobsSame DEF Types
  <2>4. ThreadOK(th'[t], version)
    <3>1. PlaceInv(th'[t]) /\ Moves(th[t]) /\ th'[t].vid = th[t].vid
      BY <1>1, <2>1 DEF ThreadOK, PlaceInv, Moves, MovePCs, SplitPCs, MergePCs, GoesTo, SameVector, SameCall, SameSplit, SameMerge
    <3> QED
      BY <1>1, <1>2, <2>1, <3>1, GoesOK DEF GoesTo, SameSplit, SameMerge
  <2>5. splitList' \subseteq HeadIds /\ mergeList' \subseteq HeadIds
    BY <2>1 DEF Types
  <2> QED
    BY <1>1, <2>1, <2>2, <2>3, <2>4, <2>5, TypesQuietStep
<1>7. CASE AppendPosting(t)
  <2> DEFINE e == <<th[t].vid, th[t].ver>>
  <2>1. /\ th[t].pc = "append" /\ Moved(t)
        /\ UNCHANGED <<heads, nextHead, headVector, keys, version, jobs, mergeLock, splitList, mergeList, setting>>
        /\ \/ Acquire(t, th[t].head) /\ CallsSplit(th'[t], th[t], "append") /\ posting' = posting
           \/ /\ posting' = [posting EXCEPT ![th[t].head] = @ \cup {e}]
              /\ GoesTo(th'[t], th[t], "sized") /\ lock' = lock
    BY <1>7, AppendPostingEffect
  <2>2. lock' \in [0..(PoolSize - 1) -> Threads \cup {None}] /\ mergeLock' \in Threads \cup {None}
    BY <1>1, <2>1, LockTypes
  <2>3. ThreadOK(th'[t], version)
    <3>1. PlaceInv(th'[t]) /\ Moves(th[t]) /\ th'[t].vid = th[t].vid
      BY <1>1, <2>1 DEF ThreadOK, CallsSplit, PlaceInv, Moves, MovePCs, SplitPCs, MergePCs, GoesTo, SameVector, SameCall, SameSplit, SameMerge
    <3>2. th'[t].clusters = th[t].clusters /\ th'[t].current = th[t].current
      BY <2>1 DEF CallsSplit, GoesTo, SameSplit, SameMerge
    <3> QED
      BY <1>1, <1>2, <2>1, <3>1, <3>2, GoesOK
  <2>4. e \in Entries /\ version[e[1]] # UNKNOWN /\ th[t].head \in HeadIds
    BY <1>1, <2>1 DEF ThreadOK, ThreadStates, Entries, PlaceInv, Moves, MovePCs, SplitPCs, MergePCs
  <2> HIDE DEF e
  <2>5. CASE posting' = posting
    BY <2>1, <2>2, <2>3, <2>5, TypesLockStep
  <2>6. CASE posting' = [posting EXCEPT ![th[t].head] = @ \cup {e}]
    <3>1. posting' \in [HeadIds -> SUBSET Entries] /\ \A h \in HeadIds : h # th[t].head => posting'[h] = posting[h]
      BY <2>4, <2>6 DEF Types
    <3>2. posting'[th[t].head] = posting[th[t].head] \cup {e} /\ Added(posting[th[t].head], version)
      BY <2>4, <2>6 DEF Types
    <3>3. Added(posting'[th[t].head], version)
      BY <2>4, <3>2, FS_AddElement DEF Added
    <3>4. Grows /\ JobSet' = JobSet
      BY <2>1, JobsSame DEF Grows
    <3>5. /\ heads' \subseteq keys' /\ keys' \subseteq HeadIds /\ nextHead' \in 0..MaxHeads
          /\ headVector' \in [HeadIds -> Vectors \cup {NoVector}] /\ version' \in [Vectors -> Nat \cup {DELETED, UNKNOWN}]
          /\ jobs' \in Seq(Jobs) /\ splitList' \subseteq HeadIds /\ mergeList' \subseteq HeadIds /\ setting' = setting
          /\ version' = version /\ headVector' = headVector /\ mergeLock' \in Threads \cup {None}
      BY <2>1 DEF Types
    <3> QED
      BY <2>1, <2>2, <2>3, <3>1, <3>3, <3>4, <3>5, TypesStep
  <2> QED
    BY <2>1, <2>5, <2>6 DEF e
<1>8. CASE CheckSize(t)
  <2> DEFINE j == SplitJob(th[t].head)
  <2>1. /\ th[t].pc = "sized" /\ Moved(t)
        /\ CallsSplit(th'[t], th[t], "next") \/ GoesTo(th'[t], th[t], "next")
        /\ (UNCHANGED <<jobs, splitList>>) \/ (splitList' = splitList \cup {th[t].head} /\ jobs' = Append(jobs, j))
        /\ UNCHANGED <<heads, nextHead, headVector, posting, keys, version, lock, mergeLock, mergeList, setting>>
    BY <1>8, CheckSizeEffect
  <2>2. th[t].head \in HeadIds
    BY <1>1, <2>1 DEF ThreadOK, PlaceInv, Moves, MovePCs, SplitPCs, MergePCs
  <2>3. j \in Jobs /\ JobOK(j, version)
    BY <2>2 DEF SplitJob, Jobs, JobOK
  <2> HIDE DEF j
  <2>4. jobs' \in Seq(Jobs) /\ JobSet' \subseteq JobSet \cup {j}
    BY <2>1, <2>3, JobsAppended, JobsSame DEF Types
  <2>5. ThreadOK(th'[t], version)
    <3>1. PlaceInv(th'[t]) /\ Moves(th[t]) /\ th'[t].vid = th[t].vid
      BY <1>1, <2>1 DEF ThreadOK, CallsSplit, PlaceInv, Moves, MovePCs, SplitPCs, MergePCs, GoesTo, SameVector, SameCall, SameSplit, SameMerge
    <3>2. th'[t].clusters = th[t].clusters /\ th'[t].current = th[t].current
      BY <2>1 DEF CallsSplit, GoesTo, SameSplit, SameMerge
    <3> QED
      BY <1>1, <1>2, <2>1, <3>1, <3>2, GoesOK
  <2>6. splitList' \subseteq HeadIds /\ mergeList' \subseteq HeadIds
    BY <2>1, <2>2 DEF Types
  <2> QED
    BY <1>1, <2>1, <2>3, <2>4, <2>5, <2>6, TypesQuietStep
<1>9. CASE SelectHeads(t)
  <2>1. Moved(t) /\ StillAll
    BY <1>9, SelectHeadsEffect
  <2>2. ThreadOK(th'[t], version)
    <3>1. CASE th'[t] = Idle
      BY <3>1, IdleOK
    <3>2. CASE th'[t] # Idle
      <4>1. /\ th[t].pc = "reassign" /\ th'[t].pc = "bump"
            /\ SameVector(th'[t], th[t]) /\ SameSplit(th'[t], th[t]) /\ SameMerge(th'[t], th[t])
        BY <1>9, <3>2, SelectHeadsEffect
      <4>2. PlaceInv(th'[t]) /\ Moves(th[t]) /\ th'[t].vid = th[t].vid
        BY <1>1, <4>1 DEF ThreadOK, SameVector, PlaceInv, Moves, MovePCs, SplitPCs, MergePCs
      <4> QED
        BY <1>1, <1>2, <2>1, <4>1, <4>2, GoesOK DEF SameSplit, SameMerge
    <3> QED
      BY <3>1, <3>2
  <2> QED
    BY <1>1, <2>1, <2>2, TypesLockStep DEF StillAll
<1>10. CASE RecheckVersion(t)
  <2>1. th[t].pc = "bump" /\ Moved(t) /\ StillAll /\ (th'[t] = Idle \/ GoesTo(th'[t], th[t], "increment"))
    BY <1>10, RecheckVersionEffect
  <2>2. ThreadOK(th'[t], version)
    <3>1. CASE th'[t] = Idle
      BY <3>1, IdleOK
    <3>2. CASE GoesTo(th'[t], th[t], "increment")
      <4>1. PlaceInv(th'[t]) /\ Moves(th[t]) /\ th'[t].vid = th[t].vid
        BY <1>1, <2>1, <3>2 DEF ThreadOK, PlaceInv, Moves, MovePCs, SplitPCs, MergePCs, GoesTo, SameVector, SameCall, SameSplit, SameMerge
      <4> QED
        BY <1>1, <1>2, <2>1, <3>2, <4>1, GoesOK DEF GoesTo, SameSplit, SameMerge
    <3> QED
      BY <2>1, <3>1, <3>2
  <2> QED
    BY <1>1, <2>1, <2>2, TypesLockStep DEF StillAll
<1>11. CASE Increment(t)
  <2> DEFINE v == th[t].vid
  <2>1. /\ th[t].pc = "increment" /\ Moved(t) /\ th'[t].pc = "next" /\ th'[t].vid = v
        /\ SameSplit(th'[t], th[t]) /\ SameMerge(th'[t], th[t])
        /\ version' = version \/ (version[v] \in Nat /\ version' = [version EXCEPT ![v] = @ + 1])
        /\ UNCHANGED <<heads, nextHead, headVector, posting, keys, jobs, lock, mergeLock, splitList, mergeList, setting>>
    BY <1>11, IncrementEffect DEF GoesTo, SameVector, SameCall, SameSplit, SameMerge
  <2>2. v \in Vectors /\ version[v] # UNKNOWN
    BY <1>1, <2>1 DEF ThreadOK, PlaceInv, Moves, MovePCs, SplitPCs, MergePCs
  <2>3. Grows /\ version' \in [Vectors -> Nat \cup {DELETED, UNKNOWN}]
    BY <2>1, <2>2 DEF Types, Grows, UNKNOWN, DELETED
  <2>4. ThreadOK(th[t], version')
    BY <1>1, <2>3, ThreadOKGrows
  <2>5. PlaceInv(th'[t]) /\ Moves(th[t])
    BY <2>1, <2>2 DEF PlaceInv, Moves, MovePCs, SplitPCs, MergePCs
  <2>6. ThreadOK(th'[t], version')
    BY <1>1, <1>2, <2>1, <2>4, <2>5, GoesOK DEF SameSplit, SameMerge
  <2>7. /\ heads' \subseteq keys' /\ keys' \subseteq HeadIds /\ nextHead' \in 0..MaxHeads
        /\ posting' \in [HeadIds -> SUBSET Entries]
        /\ headVector' \in [HeadIds -> Vectors \cup {NoVector}] /\ jobs' \in Seq(Jobs)
        /\ lock' \in [0..(PoolSize - 1) -> Threads \cup {None}] /\ mergeLock' \in Threads \cup {None}
        /\ splitList' \subseteq HeadIds /\ mergeList' \subseteq HeadIds
        /\ JobSet' = JobSet /\ setting' = setting /\ posting' = posting /\ headVector' = headVector
    BY <2>1, JobsSame DEF Types
  <2> QED
    BY <2>1, <2>3, <2>6, <2>7, TypesStep
<1> QED
  BY <1>3, <1>4, <1>5, <1>6, <1>7, <1>8, <1>9, <1>10, <1>11

\* A step that writes postings and may take heads in and out.
LEMMA TypesStoreStep ==
    ASSUME Types, NEW t \in Threads, Moved(t), UNCHANGED <<setting, nextHead, headVector, version, jobs>>,
           heads' \subseteq keys' /\ keys' \subseteq HeadIds,
           posting' \in [HeadIds -> SUBSET Entries],
           \A h \in HeadIds : posting'[h] = posting[h] \/ Added(posting'[h], version),
           lock' \in [0..(PoolSize - 1) -> Threads \cup {None}] /\ mergeLock' \in Threads \cup {None},
           splitList' \subseteq HeadIds /\ mergeList' \subseteq HeadIds,
           ThreadOK(th'[t], version)
    PROVE  Types'
<1>1. Grows /\ JobSet' = JobSet
  BY JobsSame DEF Grows
<1>2. /\ nextHead' \in 0..MaxHeads /\ headVector' \in [HeadIds -> Vectors \cup {NoVector}]
      /\ version' \in [Vectors -> Nat \cup {DELETED, UNKNOWN}] /\ jobs' \in Seq(Jobs)
  BY DEF Types
<1> QED
  BY <1>1, <1>2, TypesStep

LEMMA SubsetAdded ==
    ASSUME NEW es, NEW map, Added(es, map), NEW fs \in SUBSET es
    PROVE  Added(fs, map)
BY FS_Subset DEF Added

LEMMA LiveAdded ==
    ASSUME Types, NEW h \in HeadIds
    PROVE  Added(Live(h), version) /\ Live(h) \in SUBSET posting[h] /\ Live(h) \in SUBSET Entries
<1>1. Added(posting[h], version) /\ Live(h) \in SUBSET posting[h] /\ posting[h] \in SUBSET Entries
  BY DEF Types, Live
<1> QED
  BY <1>1, SubsetAdded

LEMMA TypesSplit ==
    ASSUME Types, NEW t \in Threads,
           \/ SplitHeadGone(t) \/ SplitCollect(t) \/ SplitOneCluster(t) \/ SplitTwoClusters(t)
           \/ KeepHead(t) \/ NewHead(t) \/ PutNewPosting(t) \/ Unlink(t) \/ Unlist(t) \/ CollectReAssign(t)
    PROVE  Types'
<1> DEFINE h == th[t].head
<1>1. /\ th[t] \in ThreadStates /\ ThreadOK(th[t], version) /\ mergeLock \in Threads \cup {None}
      /\ heads \subseteq keys /\ keys \subseteq HeadIds /\ splitList \subseteq HeadIds /\ mergeList \subseteq HeadIds
      /\ posting \in [HeadIds -> SUBSET Entries]
  BY DEF Types
<1>2. Moved(t) => th'[t] \in ThreadStates
  BY DEF Moved
<1>3. th[t].pc \in SplitPCs /\ h \in HeadIds
  <2>1. th[t].pc \in SplitPCs
    BY DEF SplitPCs, SplitHeadGone, SplitCollect, SplitOneCluster, SplitTwoClusters, KeepHead, NewHead, PutNewPosting,
           Unlink, Unlist, CollectReAssign
  <2> QED
    BY <1>1, <2>1 DEF ThreadOK, PlaceInv
<1>4. \A i \in 1..2 : th[t].clusters[i] \in SUBSET Entries /\ Added(th[t].clusters[i], version)
  BY <1>1 DEF ThreadStates, ThreadOK
<1>5. CASE SplitHeadGone(t)
  <2>1. /\ Release(h) /\ Moved(t) /\ Returns(th'[t], th[t])
        /\ UNCHANGED <<heads, nextHead, headVector, posting, keys, version, jobs, mergeLock, splitList, mergeList, setting>>
    BY <1>5, SplitHeadGoneEffect
  <2>2. ThreadOK(th'[t], version)
    BY <1>1, <1>2, <1>3, <2>1, ReturnsOK
  <2>3. lock' \in [0..(PoolSize - 1) -> Threads \cup {None}]
    BY <2>1, LockTypes
  <2> QED
    BY <1>1, <2>1, <2>2, <2>3, TypesLockStep
<1>6. CASE SplitCollect(t) \/ SplitOneCluster(t)
  <2>1. /\ splitList' = splitList \ {h} /\ Release(h) /\ Moved(t) /\ Returns(th'[t], th[t])
        /\ UNCHANGED <<heads, nextHead, headVector, keys, version, jobs, mergeLock, mergeList, setting>>
    BY <1>6, SplitKeepsEffect
  <2>2. PICK L \in SUBSET Live(h) : posting' = [posting EXCEPT ![h] = L]
    BY <1>6, SplitKeepsEffect
  <2>3. L \in SUBSET Entries /\ Added(L, version)
    BY <1>3, LiveAdded, SubsetAdded
  <2>4. posting' \in [HeadIds -> SUBSET Entries] /\ \A g \in HeadIds : posting'[g] = posting[g] \/ Added(posting'[g], version)
    BY <1>1, <1>3, <2>2, <2>3
  <2>5. ThreadOK(th'[t], version)
    BY <1>1, <1>2, <1>3, <2>1, ReturnsOK
  <2>6. lock' \in [0..(PoolSize - 1) -> Threads \cup {None}]
    BY <2>1, LockTypes
  <2>7. splitList' \subseteq HeadIds /\ mergeList' \subseteq HeadIds /\ heads' \subseteq keys' /\ keys' \subseteq HeadIds
    BY <1>1, <2>1
  <2> QED
    BY <1>1, <2>1, <2>4, <2>5, <2>6, <2>7, TypesStoreStep
<1>7. CASE SplitTwoClusters(t)
  <2>1. /\ th[t].pc = "split" /\ Acquire(t, h) /\ Moved(t) /\ th'[t].pc = "newhead"
        /\ th'[t].clusters[1] \in SUBSET Live(h) /\ th'[t].clusters[2] = Live(h) \ th'[t].clusters[1]
        /\ SameVector(th'[t], th[t]) /\ SameCall(th'[t], th[t]) /\ SameMerge(th'[t], th[t])
        /\ UNCHANGED <<heads, nextHead, headVector, posting, keys, version, jobs, mergeLock, splitList, mergeList, setting>>
    BY <1>7, SplitTwoClustersEffect
  <2>2. \A i \in 1..2 : Added(th'[t].clusters[i], version)
    <3> DEFINE L == Live(h)
               a == th'[t].clusters[1]
               b == th'[t].clusters[2]
    <3>1. Added(L, version) /\ a \in SUBSET L /\ b \in SUBSET L
      BY <1>3, <2>1, LiveAdded
    <3> HIDE DEF L, a, b
    <3>2. Added(a, version) /\ Added(b, version)
      BY <3>1, SubsetAdded
    <3> QED
      BY <3>2 DEF a, b
  <2>3. ThreadOK(th'[t], version)
    <3>1. PlaceInv(th'[t]) /\ (Moves(th'[t]) => Moves(th[t]) /\ th'[t].vid = th[t].vid)
      BY <1>1, <1>3, <2>1 DEF ThreadOK, SameVector, SameCall, PlaceInv, Moves, MovePCs, SplitPCs, MergePCs
    <3>2. Added(th'[t].clusters[1], version) /\ Added(th'[t].clusters[2], version)
      BY <2>2
    <3> QED
      BY <1>1, <2>1, <3>1, <3>2 DEF ThreadOK, SameMerge
  <2>4. lock' \in [0..(PoolSize - 1) -> Threads \cup {None}]
    BY <2>1, LockTypes
  <2> QED
    BY <1>1, <2>1, <2>3, <2>4, TypesLockStep
<1>8. CASE KeepHead(t)
  <2> DEFINE c == th[t].clusters[th[t].k]
  <2>1. /\ th[t].pc = "newhead" /\ posting' = [posting EXCEPT ![h] = c] /\ Moved(t) /\ Advances(th'[t], th[t])
        /\ UNCHANGED <<heads, nextHead, headVector, keys, version, jobs, lock, mergeLock, splitList, mergeList, setting>>
    BY <1>8, KeepHeadEffect
  <2>2. c \in SUBSET Entries /\ Added(c, version)
    BY <1>1, <1>4 DEF ThreadStates
  <2> HIDE DEF c
  <2>3. posting' \in [HeadIds -> SUBSET Entries] /\ \A g \in HeadIds : posting'[g] = posting[g] \/ Added(posting'[g], version)
    BY <1>1, <1>3, <2>1, <2>2
  <2>4. ThreadOK(th'[t], version)
    <3>1. PlaceInv(th'[t]) /\ (Moves(th'[t]) => Moves(th[t]) /\ th'[t].vid = th[t].vid)
      BY <1>1, <1>3, <2>1 DEF ThreadOK, Advances, SameVector, SameCall, PlaceInv, Moves, MovePCs, SplitPCs, MergePCs
    <3> QED
      BY <1>1, <1>2, <2>1, <3>1, GoesOK DEF Advances, SameMerge
  <2>5. lock' \in [0..(PoolSize - 1) -> Threads \cup {None}]
    BY <2>1, LockTypes
  <2>6. splitList' \subseteq HeadIds /\ mergeList' \subseteq HeadIds /\ heads' \subseteq keys' /\ keys' \subseteq HeadIds
    BY <1>1, <2>1
  <2> QED
    BY <1>1, <2>1, <2>3, <2>4, <2>5, <2>6, TypesStoreStep
<1>9. CASE NewHead(t)
  <2> DEFINE n == nextHead
  <2>1. /\ th[t].pc = "newhead" /\ n \in HeadIds /\ nextHead' \in 0..MaxHeads
        /\ Moved(t) /\ th'[t].pc = "put" /\ th'[t].ids = [th[t].ids EXCEPT ![th[t].k] = n]
        /\ th'[t].k = th[t].k /\ th'[t].clusters = th[t].clusters
        /\ SameVector(th'[t], th[t]) /\ SameCall(th'[t], th[t]) /\ SameMerge(th'[t], th[t])
        /\ UNCHANGED <<heads, posting, keys, jobs, lock, mergeLock, splitList, mergeList, setting>>
    BY <1>9, NewHeadEffect
  <2>2. \/ UNCHANGED <<headVector, version>>
        \/ \E e \in th[t].clusters[th[t].k] :
             /\ headVector' = [headVector EXCEPT ![n] = e[1]]
             /\ version' = [version EXCEPT ![e[1]] = IF @ = DELETED THEN @ ELSE @ + 1]
    BY <1>9, NewHeadEffect
  <2> HIDE DEF n
  <2>3. \A e \in th[t].clusters[th[t].k] : e[1] \in Vectors /\ version[e[1]] # UNKNOWN
    BY <1>1, <1>4 DEF ThreadStates, Entries, Added
  <2>4. /\ Grows /\ version' \in [Vectors -> Nat \cup {DELETED, UNKNOWN}]
        /\ headVector' \in [HeadIds -> Vectors \cup {NoVector}]
        /\ \A g \in HeadIds : headVector'[g] = headVector[g] \/ version'[headVector'[g]] # UNKNOWN
    <3>1. CASE UNCHANGED <<headVector, version>>
      BY <3>1 DEF Types, Grows
    <3>2. ASSUME NEW e \in th[t].clusters[th[t].k],
                 headVector' = [headVector EXCEPT ![n] = e[1]],
                 version' = [version EXCEPT ![e[1]] = IF @ = DELETED THEN @ ELSE @ + 1]
          PROVE  /\ Grows /\ version' \in [Vectors -> Nat \cup {DELETED, UNKNOWN}]
                 /\ headVector' \in [HeadIds -> Vectors \cup {NoVector}]
                 /\ \A g \in HeadIds : headVector'[g] = headVector[g] \/ version'[headVector'[g]] # UNKNOWN
      <4>1. e[1] \in Vectors /\ version[e[1]] \in Nat \cup {DELETED}
        BY <2>3 DEF Types
      <4>2. version'[e[1]] \in Nat \cup {DELETED} /\ \A v \in Vectors : v # e[1] => version'[v] = version[v]
        BY <3>2, <4>1 DEF Types, DELETED
      <4>3. version' \in [Vectors -> Nat \cup {DELETED, UNKNOWN}]
        BY <3>2, <4>1, <4>2 DEF Types
      <4> QED
        BY <2>1, <3>2, <4>1, <4>2, <4>3 DEF Types, Grows, UNKNOWN, DELETED
    <3> QED
      BY <2>2, <3>1, <3>2
  <2>5. ThreadOK(th'[t], version')
    <3>1. ThreadOK(th[t], version')
      BY <1>1, <2>4, ThreadOKGrows
    <3>2. th'[t].ids[th'[t].k] \in HeadIds
      BY <1>1, <2>1 DEF ThreadStates
    <3>3. PlaceInv(th'[t]) /\ (Moves(th'[t]) => Moves(th[t]) /\ th'[t].vid = th[t].vid)
      BY <1>1, <1>3, <2>1, <3>2 DEF ThreadOK, SameVector, SameCall, PlaceInv, Moves, MovePCs, SplitPCs, MergePCs
    <3> QED
      BY <1>1, <1>2, <2>1, <3>1, <3>3, GoesOK DEF SameMerge
  <2>6. /\ heads' \subseteq keys' /\ keys' \subseteq HeadIds /\ posting' \in [HeadIds -> SUBSET Entries] /\ jobs' \in Seq(Jobs)
        /\ lock' \in [0..(PoolSize - 1) -> Threads \cup {None}] /\ mergeLock' \in Threads \cup {None}
        /\ splitList' \subseteq HeadIds /\ mergeList' \subseteq HeadIds
        /\ JobSet' = JobSet /\ setting' = setting /\ posting' = posting
    BY <2>1, JobsSame DEF Types
  <2> QED
    BY <2>1, <2>4, <2>5, <2>6, TypesStep
<1>10. CASE PutNewPosting(t)
  <2> DEFINE c == th[t].clusters[th[t].k]
             n == th[t].ids[th[t].k]
  <2>1. /\ th[t].pc = "put" /\ n \in HeadIds /\ posting' = [posting EXCEPT ![n] = c]
        /\ keys' = keys \cup {n} /\ heads' = heads \cup {n} /\ Moved(t) /\ Advances(th'[t], th[t])
        /\ UNCHANGED <<nextHead, headVector, version, jobs, lock, mergeLock, splitList, mergeList, setting>>
    BY <1>10, PutNewPostingEffect
  <2>2. c \in SUBSET Entries /\ Added(c, version)
    BY <1>1, <1>4 DEF ThreadStates
  <2> HIDE DEF c, n
  <2>3. posting' \in [HeadIds -> SUBSET Entries] /\ \A g \in HeadIds : posting'[g] = posting[g] \/ Added(posting'[g], version)
    BY <1>1, <2>1, <2>2
  <2>4. ThreadOK(th'[t], version)
    <3>1. PlaceInv(th'[t]) /\ (Moves(th'[t]) => Moves(th[t]) /\ th'[t].vid = th[t].vid)
      BY <1>1, <1>3, <2>1 DEF ThreadOK, Advances, SameVector, SameCall, PlaceInv, Moves, MovePCs, SplitPCs, MergePCs
    <3> QED
      BY <1>1, <1>2, <2>1, <3>1, GoesOK DEF Advances, SameMerge
  <2>5. lock' \in [0..(PoolSize - 1) -> Threads \cup {None}]
    BY <2>1, LockTypes
  <2>6. splitList' \subseteq HeadIds /\ mergeList' \subseteq HeadIds /\ heads' \subseteq keys' /\ keys' \subseteq HeadIds
    BY <1>1, <2>1
  <2> QED
    BY <1>1, <2>1, <2>3, <2>4, <2>5, <2>6, TypesStoreStep
<1>11. CASE Unlink(t)
  <2>1. /\ th[t].pc = "unlink" /\ Moved(t) /\ GoesTo(th'[t], th[t], "unlist")
        /\ \/ heads' = heads \ {h} /\ keys' = keys \ {h} /\ posting' = [posting EXCEPT ![h] = {}]
           \/ UNCHANGED <<heads, posting, keys>>
        /\ lock' = lock \/ Release(h)
        /\ UNCHANGED <<nextHead, headVector, version, jobs, mergeLock, splitList, mergeList, setting>>
    BY <1>11, UnlinkEffect
  <2>2. posting' \in [HeadIds -> SUBSET Entries] /\ \A g \in HeadIds : posting'[g] = posting[g] \/ Added(posting'[g], version)
    BY <1>1, <1>3, <2>1, FS_EmptySet DEF Added
  <2>3. ThreadOK(th'[t], version)
    <3>1. PlaceInv(th'[t]) /\ (Moves(th'[t]) => Moves(th[t]) /\ th'[t].vid = th[t].vid)
      BY <1>1, <1>3, <2>1 DEF ThreadOK, PlaceInv, Moves, MovePCs, SplitPCs, MergePCs, GoesTo, SameVector, SameCall, SameSplit, SameMerge
    <3> QED
      BY <1>1, <1>2, <2>1, <3>1, GoesOK DEF GoesTo, SameSplit, SameMerge
  <2>4. lock' \in [0..(PoolSize - 1) -> Threads \cup {None}]
    BY <2>1, LockTypes
  <2>5. splitList' \subseteq HeadIds /\ mergeList' \subseteq HeadIds /\ heads' \subseteq keys' /\ keys' \subseteq HeadIds
    BY <1>1, <2>1
  <2> QED
    BY <1>1, <2>1, <2>2, <2>3, <2>4, <2>5, TypesStoreStep
<1>12. CASE Unlist(t)
  <2>1. /\ th[t].pc = "unlist" /\ splitList' = splitList \ {h} /\ Moved(t)
        /\ GoesTo(th'[t], th[t], "collect") \/ Returns(th'[t], th[t])
        /\ UNCHANGED <<heads, nextHead, headVector, posting, keys, version, jobs, lock, mergeLock, mergeList, setting>>
    BY <1>12, UnlistEffect
  <2>2. ThreadOK(th'[t], version)
    <3>1. CASE Returns(th'[t], th[t])
      BY <1>1, <1>2, <1>3, <2>1, <3>1, ReturnsOK
    <3>2. CASE GoesTo(th'[t], th[t], "collect")
      <4>1. PlaceInv(th'[t]) /\ (Moves(th'[t]) => Moves(th[t]) /\ th'[t].vid = th[t].vid)
        BY <1>1, <1>3, <2>1, <3>2 DEF ThreadOK, PlaceInv, Moves, MovePCs, SplitPCs, MergePCs, GoesTo, SameVector, SameCall, SameSplit, SameMerge
      <4> QED
        BY <1>1, <1>2, <2>1, <3>2, <4>1, GoesOK DEF GoesTo, SameSplit, SameMerge
    <3> QED
      BY <2>1, <3>1, <3>2
  <2>3. posting' \in [HeadIds -> SUBSET Entries] /\ \A g \in HeadIds : posting'[g] = posting[g]
    BY <1>1, <2>1
  <2>4. lock' \in [0..(PoolSize - 1) -> Threads \cup {None}]
    BY <2>1, LockTypes
  <2>5. splitList' \subseteq HeadIds /\ mergeList' \subseteq HeadIds /\ heads' \subseteq keys' /\ keys' \subseteq HeadIds
    BY <1>1, <2>1
  <2> QED
    BY <1>1, <2>1, <2>2, <2>3, <2>4, <2>5, TypesStoreStep
<1>13. CASE CollectReAssign(t)
  <2>1. /\ Moved(t) /\ Returns(th'[t], th[t]) /\ (Release(h) \/ lock' = lock)
        /\ UNCHANGED <<heads, nextHead, headVector, posting, keys, version, mergeLock, splitList, mergeList, setting>>
    BY <1>13, CollectReAssignEffect
  <2>2. PICK js \in SUBSET Jobs :
          /\ jobs' \in Seq(Jobs)
          /\ JobSet' = JobSet \cup (IF th[t].same = 0 THEN Range(HeadVectorJobs(h)) ELSE {}) \cup js
          /\ \A j \in js : \E i \in 1..2 : \E e \in th[t].clusters[i] : j = ReassignJob(e, th[t].ids[i])
    BY <1>13, CollectReAssignEffect
  <2>3. \A j \in js : JobOK(j, version)
    BY <1>4, <2>2 DEF ReassignJob, JobOK, Added
  <2>4. \A j \in Range(HeadVectorJobs(h)) : JobOK(j, version)
    <3>1. \A j \in Range(HeadVectorJobs(h)) : version[headVector[h]] \in Nat /\ j = ReassignJob(<<headVector[h], version[headVector[h]]>>, NoHead)
      BY <1>3, HeadVectorJobsAre
    <3> QED
      BY <3>1 DEF ReassignJob, JobOK, UNKNOWN
  <2>5. ThreadOK(th'[t], version)
    BY <1>1, <1>2, <1>3, <2>1, ReturnsOK
  <2>6. lock' \in [0..(PoolSize - 1) -> Threads \cup {None}]
    BY <2>1, LockTypes
  <2> QED
    BY <1>1, <2>1, <2>2, <2>3, <2>4, <2>5, <2>6, TypesQuietStep
<1> QED
  BY <1>5, <1>6, <1>7, <1>8, <1>9, <1>10, <1>11, <1>12, <1>13

LEMMA TypesMerge ==
    ASSUME Types, NEW t \in Threads,
           \/ MergeBusy(t) \/ MergeStart(t) \/ MergeHeadGone(t) \/ MergeNotNeeded(t) \/ MergeRead(t)
           \/ (\E o \in HeadIds : MergePick(t, o)) \/ MergeOtherGone(t) \/ MergeWith(t) \/ MergeNoNeighbour(t)
           \/ MergeReassign(t)
    PROVE  Types'
<1> DEFINE h == th[t].head
<1>1. /\ th[t] \in ThreadStates /\ ThreadOK(th[t], version) /\ mergeLock \in Threads \cup {None}
      /\ heads \subseteq keys /\ keys \subseteq HeadIds /\ splitList \subseteq HeadIds /\ mergeList \subseteq HeadIds
      /\ posting \in [HeadIds -> SUBSET Entries]
      /\ lock \in [0..(PoolSize - 1) -> Threads \cup {None}]
  BY DEF Types
<1>2. Moved(t) => th'[t] \in ThreadStates
  BY DEF Moved
<1>3. th[t].pc \in MergePCs /\ h \in HeadIds
  <2>1. th[t].pc \in MergePCs
    BY DEF MergePCs, MergeBusy, MergeStart, MergeHeadGone, MergeNotNeeded, MergeRead, MergePick, MergeOtherGone, MergeWith,
           MergeNoNeighbour, MergeReassign
  <2> QED
    BY <1>1, <2>1 DEF ThreadOK, PlaceInv
<1>4. CASE MergeBusy(t)
  <2> DEFINE j == MergeJob(h, th[t].reassign)
  <2>1. /\ jobs' = Append(jobs, j) /\ Moved(t) /\ th'[t] = Idle
        /\ UNCHANGED <<heads, nextHead, headVector, posting, keys, version, lock, mergeLock, splitList, mergeList, setting>>
    BY <1>4, MergeBusyEffect
  <2>2. j \in Jobs /\ JobOK(j, version)
    BY <1>1, <1>3 DEF MergeJob, Jobs, JobOK, ThreadStates
  <2> HIDE DEF j
  <2>3. jobs' \in Seq(Jobs) /\ JobSet' = JobSet \cup {j}
    BY <2>1, <2>2, JobsAppended DEF Types
  <2> QED
    BY <1>1, <2>1, <2>2, <2>3, IdleOK, TypesQuietStep
<1>5. CASE MergeStart(t)
  <2>1. /\ mergeLock' = t /\ Moved(t) /\ GoesTo(th'[t], th[t], "mergelock")
        /\ UNCHANGED <<heads, nextHead, headVector, posting, keys, version, jobs, lock, splitList, mergeList, setting>>
    BY <1>5, MergeStartEffect
  <2>2. PlaceInv(th'[t]) /\ ~Moves(th'[t])
    BY <1>3, <2>1 DEF PlaceInv, Moves, MovePCs, SplitPCs, MergePCs, GoesTo, SameVector, SameCall, SameSplit, SameMerge
  <2>3. ThreadOK(th'[t], version)
    BY <1>1, <1>2, <2>1, <2>2, GoesOK DEF GoesTo, SameSplit, SameMerge
  <2> QED
    BY <1>1, <2>1, <2>3, TypesLockStep
<1>6. CASE MergeHeadGone(t)
  <2>1. /\ mergeLock' = None /\ Moved(t) /\ th'[t] = Idle
        /\ UNCHANGED <<heads, nextHead, headVector, posting, keys, version, jobs, lock, splitList, mergeList, setting>>
    BY <1>6, MergeHeadGoneEffect
  <2> QED
    BY <1>1, <2>1, IdleOK, TypesLockStep
<1>7. CASE MergeNotNeeded(t)
  <2>1. /\ posting' = [posting EXCEPT ![h] = Live(h)] /\ mergeList' = mergeList \ {h} /\ mergeLock' = None
        /\ Moved(t) /\ th'[t] = Idle
        /\ UNCHANGED <<heads, nextHead, headVector, keys, version, jobs, lock, splitList, setting>>
    BY <1>7, MergeNotNeededEffect
  <2>2. posting' \in [HeadIds -> SUBSET Entries] /\ \A g \in HeadIds : posting'[g] = posting[g] \/ Added(posting'[g], version)
    BY <1>1, <1>3, <2>1, LiveAdded
  <2>3. heads' \subseteq keys' /\ keys' \subseteq HeadIds /\ splitList' \subseteq HeadIds /\ mergeList' \subseteq HeadIds
    BY <1>1, <2>1
  <2> QED
    BY <1>1, <2>1, <2>2, <2>3, IdleOK, TypesStoreStep
<1>8. CASE MergeRead(t)
  <2>1. /\ Acquire(t, h) /\ Moved(t) /\ th'[t].pc = "mergewith" /\ th'[t].current = Live(h)
        /\ SameCall(th'[t], th[t]) /\ SameSplit(th'[t], th[t])
        /\ UNCHANGED <<heads, nextHead, headVector, posting, keys, version, jobs, mergeLock, splitList, mergeList, setting>>
    BY <1>8, MergeReadEffect
  <2>2. PlaceInv(th'[t]) /\ ~Moves(th'[t])
    BY <1>3, <2>1 DEF SameCall, PlaceInv, Moves, MovePCs, SplitPCs, MergePCs
  <2>3. ThreadOK(th'[t], version)
    BY <1>1, <1>3, <2>1, <2>2, LiveAdded DEF ThreadOK, SameSplit
  <2>4. lock' \in [0..(PoolSize - 1) -> Threads \cup {None}]
    BY <2>1, LockTypes
  <2> QED
    BY <1>1, <2>1, <2>3, <2>4, TypesLockStep
<1>9. ASSUME NEW o \in HeadIds, MergePick(t, o) PROVE Types'
  <2>1. /\ Moved(t) /\ th'[t].pc = "mergeother" /\ th'[t].survivor = o /\ th'[t].current = th[t].current
        /\ SameCall(th'[t], th[t]) /\ SameSplit(th'[t], th[t]) /\ StillAll
    BY <1>9, MergePickEffect
  <2>2. PlaceInv(th'[t]) /\ ~Moves(th'[t])
    BY <1>3, <2>1 DEF SameCall, PlaceInv, Moves, MovePCs, SplitPCs, MergePCs
  <2>3. ThreadOK(th'[t], version)
    BY <1>1, <1>2, <2>1, <2>2, GoesOK DEF SameSplit
  <2> QED
    BY <1>1, <2>1, <2>3, TypesLockStep DEF StillAll
<1>10. CASE MergeOtherGone(t)
  <2>1. Moved(t) /\ GoesTo(th'[t], th[t], "mergewith") /\ StillAll
    BY <1>10, MergeOtherGoneEffect
  <2>2. PlaceInv(th'[t]) /\ ~Moves(th'[t])
    BY <1>3, <2>1 DEF PlaceInv, Moves, MovePCs, SplitPCs, MergePCs, GoesTo, SameVector, SameCall, SameSplit, SameMerge
  <2>3. ThreadOK(th'[t], version)
    BY <1>1, <1>2, <2>1, <2>2, GoesOK DEF GoesTo, SameSplit, SameMerge
  <2> QED
    BY <1>1, <2>1, <2>3, TypesLockStep DEF StillAll
<1>11. CASE MergeWith(t)
  <2> DEFINE o == th[t].survivor
             M == th[t].current \cup Additional(t, o)
  <2>1. /\ o \in heads /\ Release(h) /\ mergeLock' = None /\ Moved(t) /\ SameCall(th'[t], th[t])
        /\ th'[t].clusters = th[t].clusters
        /\ UNCHANGED <<nextHead, headVector, version, jobs, splitList, mergeList, setting>>
    BY <1>11, MergeWithEffect
  <2>2. PICK gone \in HeadIds, kept \in HeadIds :
          /\ heads' = heads \ {gone} /\ keys' = keys \ {gone}
          /\ posting' = [posting EXCEPT ![kept] = M, ![gone] = {}]
          /\ th'[t].pc = "mergereassign" /\ th'[t].current = posting[gone] /\ th'[t].ids = <<gone, NoHead>>
    BY <1>11, MergeWithEffect
  <2>3. M \in SUBSET Entries /\ Added(M, version)
    <3>1. th[t].current \in SUBSET Entries /\ Added(th[t].current, version)
      BY <1>1 DEF ThreadStates, ThreadOK
    <3>2. Additional(t, o) \in SUBSET Live(o) /\ Added(Live(o), version) /\ Live(o) \in SUBSET Entries
      BY <1>1, <2>1, LiveAdded DEF Additional
    <3> DEFINE A == Additional(t, o)
    <3> HIDE DEF A
    <3>3. Added(A, version) /\ A \in SUBSET Entries
      BY <3>2, SubsetAdded DEF A
    <3>4. IsFiniteSet(th[t].current \cup A)
      BY <3>1, <3>3, FS_Union DEF Added
    <3> QED
      BY <3>1, <3>3, <3>4 DEF Added, A
  <2> HIDE DEF M
  <2>4. posting' \in [HeadIds -> SUBSET Entries] /\ \A g \in HeadIds : posting'[g] = posting[g] \/ Added(posting'[g], version)
    BY <1>1, <2>2, <2>3, FS_EmptySet DEF Added
  <2>5. PlaceInv(th'[t]) /\ ~Moves(th'[t])
    BY <1>3, <2>1, <2>2 DEF SameCall, PlaceInv, Moves, MovePCs, SplitPCs, MergePCs
  <2>6. ThreadOK(th'[t], version)
    BY <1>1, <2>1, <2>2, <2>5 DEF ThreadOK, Types
  <2>7. lock' \in [0..(PoolSize - 1) -> Threads \cup {None}]
    BY <2>1, LockTypes
  <2>8. heads' \subseteq keys' /\ keys' \subseteq HeadIds /\ splitList' \subseteq HeadIds /\ mergeList' \subseteq HeadIds
    BY <1>1, <2>1, <2>2
  <2> QED
    BY <2>1, <2>4, <2>6, <2>7, <2>8, TypesStoreStep
<1>12. CASE MergeNoNeighbour(t)
  <2>1. /\ posting' = [posting EXCEPT ![h] = th[t].current] /\ mergeList' = mergeList \ {h} /\ Release(h) /\ mergeLock' = None
        /\ Moved(t) /\ th'[t] = Idle
        /\ UNCHANGED <<heads, nextHead, headVector, keys, version, jobs, splitList, setting>>
    BY <1>12, MergeNoNeighbourEffect
  <2>2. posting' \in [HeadIds -> SUBSET Entries] /\ \A g \in HeadIds : posting'[g] = posting[g] \/ Added(posting'[g], version)
    BY <1>1, <1>3, <2>1 DEF ThreadOK, ThreadStates
  <2>3. heads' \subseteq keys' /\ keys' \subseteq HeadIds /\ splitList' \subseteq HeadIds /\ mergeList' \subseteq HeadIds
    BY <1>1, <2>1
  <2>4. lock' \in [0..(PoolSize - 1) -> Threads \cup {None}]
    BY <2>1, LockTypes
  <2> QED
    BY <2>1, <2>2, <2>3, <2>4, IdleOK, TypesStoreStep
<1>13. CASE MergeReassign(t)
  <2>1. /\ th[t].pc = "mergereassign" /\ mergeList' = mergeList \ {h} /\ Moved(t) /\ th'[t] = Idle /\ jobs' \in Seq(Jobs)
        /\ \A j \in JobSet' \ JobSet : \/ \E e \in th[t].current : j = ReassignJob(e, th[t].survivor)
                                       \/ j \in Range(HeadVectorJobs(th[t].ids[1]))
        /\ UNCHANGED <<heads, nextHead, headVector, posting, keys, version, lock, mergeLock, splitList, setting>>
    BY <1>13, MergeReassignEffect
  <2>2. \A j \in JobSet' \ JobSet : JobOK(j, version)
    <3>1. \A e \in th[t].current : version[e[1]] # UNKNOWN
      BY <1>1 DEF ThreadOK, Added
    <3>2. th[t].ids[1] \in HeadIds
      BY <1>1, <2>1 DEF ThreadOK, PlaceInv
    <3>3. \A j \in Range(HeadVectorJobs(th[t].ids[1])) :
            \E v \in Vectors : version[v] \in Nat /\ j = ReassignJob(<<v, version[v]>>, NoHead)
      BY <3>2, HeadVectorJobsAre
    <3> QED
      BY <2>1, <3>1, <3>3 DEF ReassignJob, JobOK, UNKNOWN
  <2>3. mergeList' \subseteq HeadIds
    BY <1>1, <2>1
  <2> QED
    BY <1>1, <2>1, <2>2, <2>3, IdleOK, TypesQuietStep
<1> QED
  BY <1>4, <1>5, <1>6, <1>7, <1>8, <1>9, <1>10, <1>11, <1>12, <1>13

LEMMA TypesNext ==
    ASSUME Types, [Next]_vars
    PROVE  Types'
<1>1. CASE Next
  <2>1. PICK t \in Threads : ClientStep(t) \/ Work(t)
    BY <1>1 DEF Next
  <2> QED
    BY <2>1, TypesClient, TypesAppend, TypesSplit, TypesMerge DEF Work
<1>2. CASE UNCHANGED vars
  <2>1. UNCHANGED <<setting, heads, nextHead, posting, keys, headVector, version, jobs, lock, mergeLock, splitList, mergeList, th>>
    BY <1>2 DEF vars
  <2> QED
    BY <2>1 DEF Types, JobSet
<1> QED
  BY <1>1, <1>2

\* Every variable has its type and every head a posting, always: ids of new
\* heads stay in range, a thread never goes on with a head or a vector it has
\* not set, and every entry stored, moved or queued is of an added vector
\* (ExtraDynamicSearcher.h).
THEOREM TypesHold == Spec => []Types
<1>1. Init => Types
  BY TypesInit
<1>2. Types /\ [Next]_vars => Types'
  BY TypesNext
<1> QED
  BY <1>1, <1>2, PTL DEF Spec

\* What TypeOK says of it: in particular every head that the index contains has a
\* posting in the store, which Append and Split read without asking.
THEOREM TypeCorrect == Spec => []TypeOK
<1>1. Types => TypeOK
  <2> SUFFICES ASSUME Types PROVE TypeOK
    OBVIOUS
  <2>1. \A t \in Threads : th[t].pc \in PCs
    BY DEF Types, ThreadStates
  <2>2. version \in [Vectors -> Int]
    BY DEF Types, DELETED, UNKNOWN
  <2> QED
    BY <2>1, <2>2 DEF Types, TypeOK, Entries
<1> QED
  BY <1>1, TypesHold, PTL

(***************************************************************************)
(* Locks                                                                   *)
(***************************************************************************)

MergeHolds(r) == r.pc \in {"mergelock", "mergewith", "mergeother"}

\* What a step does to the locks of m_rwLocks and to m_mergeLock.
KeepsLock(t) == lock' = lock /\ (Locks(th'[t]) <=> Locks(th[t])) /\ (Locks(th[t]) => th'[t].head = th[t].head)
TakesLock(t, h) ==
    /\ h \in HeadIds /\ lock[Hash(h)] \in {None, t} /\ (Locks(th[t]) => th[t].head = h)
    /\ Acquire(t, h) /\ Locks(th'[t]) /\ th'[t].head = h
DropsLock(t, h) ==
    /\ h \in HeadIds /\ lock[Hash(h)] \in {None, t} /\ (Locks(th[t]) => th[t].head = h)
    /\ Release(h) /\ ~Locks(th'[t])

KeepsMergeLock(t) == mergeLock' = mergeLock /\ (MergeHolds(th'[t]) <=> MergeHolds(th[t]))
TakesMergeLock(t) == mergeLock = None /\ mergeLock' = t /\ MergeHolds(th'[t])
DropsMergeLock(t) == MergeHolds(th[t]) /\ mergeLock' = None /\ ~MergeHolds(th'[t])

SplitReassigns(r) == r.pc \in SplitPCs /\ r.after = "append" => r.reassign

LEMMA HashRange ==
    ASSUME NEW h \in HeadIds
    PROVE  Hash(h) \in 0..(PoolSize - 1)
BY BoundAssumption DEF HeadIds, Hash

LEMMA LockStep ==
    ASSUME Types, LockInv, NEW t \in Threads, Moved(t),
           KeepsLock(t) \/ (\E h \in HeadIds : TakesLock(t, h) \/ DropsLock(t, h)),
           KeepsMergeLock(t) \/ TakesMergeLock(t) \/ DropsMergeLock(t),
           SplitReassigns(th'[t])
    PROVE  LockInv'
<1>1. /\ lock \in [0..(PoolSize - 1) -> Threads \cup {None}] /\ None \notin Threads
      /\ \A u \in Threads : u # t => th'[u] = th[u]
  BY ThreadAssumption DEF Types, Moved
<1>2. ASSUME NEW i \in 0..(PoolSize - 1), NEW u \in Threads
      PROVE  lock'[i] = u <=> Locks(th'[u]) /\ Hash(th'[u].head) = i
  <2>1. /\ lock[i] = u <=> Locks(th[u]) /\ Hash(th[u].head) = i
        /\ lock[i] = t <=> Locks(th[t]) /\ Hash(th[t].head) = i
    BY DEF LockInv
  <2>2. CASE KeepsLock(t)
    BY <1>1, <2>1, <2>2 DEF KeepsLock
  <2>3. ASSUME NEW h \in HeadIds, TakesLock(t, h) PROVE lock'[i] = u <=> Locks(th'[u]) /\ Hash(th'[u].head) = i
    <3>1. Hash(h) \in 0..(PoolSize - 1) /\ lock'[i] = IF i = Hash(h) THEN t ELSE lock[i]
      BY <1>1, <2>3, HashRange DEF TakesLock, Acquire
    <3>2. CASE u = t
      BY <2>1, <2>3, <3>1, <3>2 DEF TakesLock
    <3>3. CASE u # t
      BY <1>1, <2>1, <2>3, <3>1, <3>3 DEF TakesLock
    <3> QED
      BY <3>2, <3>3
  <2>4. ASSUME NEW h \in HeadIds, DropsLock(t, h) PROVE lock'[i] = u <=> Locks(th'[u]) /\ Hash(th'[u].head) = i
    <3>1. Hash(h) \in 0..(PoolSize - 1) /\ lock'[i] = IF i = Hash(h) THEN None ELSE lock[i]
      BY <1>1, <2>4, HashRange DEF DropsLock, Release
    <3>2. CASE u = t
      BY <1>1, <2>1, <2>4, <3>1, <3>2 DEF DropsLock
    <3>3. CASE u # t
      BY <1>1, <2>1, <2>4, <3>1, <3>3 DEF DropsLock
    <3> QED
      BY <3>2, <3>3
  <2> QED
    BY <2>2, <2>3, <2>4
<1>3. ASSUME NEW u \in Threads
      PROVE  mergeLock' = u <=> MergeHolds(th'[u])
  <2>1. (mergeLock = u <=> MergeHolds(th[u])) /\ (mergeLock = t <=> MergeHolds(th[t]))
    BY DEF LockInv, MergeHolds
  <2> QED
    BY <1>1, <2>1 DEF KeepsMergeLock, TakesMergeLock, DropsMergeLock
<1>4. ASSUME NEW u \in Threads
      PROVE  SplitReassigns(th'[u])
  BY <1>1 DEF LockInv, SplitReassigns
<1> QED
  BY <1>2, <1>3, <1>4 DEF LockInv, MergeHolds, SplitReassigns

LEMMA LockInit == Init => LockInv
<1> SUFFICES ASSUME Init PROVE LockInv
  OBVIOUS
<1>1. /\ \A i \in 0..(PoolSize - 1) : lock[i] = None
      /\ mergeLock = None /\ None \notin Threads /\ \A t \in Threads : th[t].pc = "idle"
  BY ThreadAssumption, IdleFields DEF Init
<1> QED
  BY <1>1 DEF LockInv, Locks, SplitPCs

\* A thread that returns from Split holds nothing.
LEMMA ReturnsLock ==
    ASSUME NEW r \in ThreadStates, NEW q, Returns(q, r)
    PROVE  ~Locks(q) /\ ~MergeHolds(q) /\ SplitReassigns(q)
<1>1. q.pc \in {"idle", "append", "next", "gc"}
  BY IdleFields DEF Returns, ThreadStates
<1> QED
  BY <1>1 DEF Locks, MergeHolds, SplitReassigns, SplitPCs

LEMMA IdleLocks == ~Locks(Idle) /\ ~MergeHolds(Idle) /\ SplitReassigns(Idle)
BY IdleFields DEF Locks, MergeHolds, SplitReassigns, SplitPCs

\* The lock that Split may take is free or held for it by Append.
LEMMA SplitMayLock ==
    ASSUME NEW t, NEW h, CanLock(t, h)
    PROVE  lock[Hash(h)] \in {None, t}
BY DEF CanLock, Free, Held

LEMMA LockAppend ==
    ASSUME Types, LockInv, NEW t \in Threads,
           ClientStep(t) \/ TakeJob(t) \/ CollectNext(t)
           \/ NextSelection(t) \/ HeadMiss(t) \/ AppendPosting(t) \/ CheckSize(t)
           \/ SelectHeads(t) \/ RecheckVersion(t) \/ Increment(t)
    PROVE  LockInv'
<1> DEFINE h == th[t].head
<1>1. th[t] \in ThreadStates /\ ThreadOK(th[t], version)
  BY DEF Types
<1>2. CASE AppendPosting(t)
  <2>1. /\ th[t].pc = "append" /\ Free(h) /\ Moved(t) /\ mergeLock' = mergeLock
        /\ \/ Acquire(t, h) /\ CallsSplit(th'[t], th[t], "append")
           \/ GoesTo(th'[t], th[t], "sized") /\ lock' = lock
    BY <1>2, AppendPostingEffect
  <2>2. h \in HeadIds
    BY <1>1, <2>1 DEF ThreadOK, PlaceInv
  <2>3. KeepsMergeLock(t) /\ SplitReassigns(th'[t])
    BY <2>1 DEF KeepsMergeLock, MergeHolds, SplitReassigns, CallsSplit, SplitPCs, GoesTo, SameVector, SameCall, SameSplit, SameMerge
  <2>4. CASE Acquire(t, h) /\ CallsSplit(th'[t], th[t], "append")
    <3>1. TakesLock(t, h)
      BY <2>1, <2>2, <2>4 DEF TakesLock, Free, Locks, SplitPCs, CallsSplit
    <3> QED
      BY <2>1, <2>2, <2>3, <3>1, LockStep
  <2>5. CASE GoesTo(th'[t], th[t], "sized") /\ lock' = lock
    <3>1. KeepsLock(t)
      BY <2>1, <2>5 DEF KeepsLock, Locks, SplitPCs, GoesTo
    <3> QED
      BY <2>1, <2>3, <3>1, LockStep
  <2> QED
    BY <2>1, <2>4, <2>5
<1>3. CASE ~AppendPosting(t)
  <2>1. lock' = lock /\ mergeLock' = mergeLock
    <3>1. CASE ClientStep(t)
      BY <3>1 DEF ClientStep, AddIndex, DeleteIndex, SearchIndex, ForceGC
    <3>2. CASE ~ClientStep(t)
      BY <1>3, <3>2 DEF TakeJob, CollectNext, NextSelection, HeadMiss, CheckSize, SelectHeads, RecheckVersion, Increment
    <3> QED
      BY <3>1, <3>2
  <2>2. /\ Moved(t)
        /\ \/ th' = th
           \/ /\ th[t].pc \in MovePCs \cup {"idle", "gc"}
              /\ \/ th'[t].pc \in MovePCs \cup {"idle", "gc", "merge"}
                 \/ th'[t].pc = "split" /\ th'[t].after # "append"
    <3>1. CASE ClientStep(t)
      <4>1. ASSUME NEW v \in Vectors, AddIndex(t, v) PROVE Moved(t) /\ th[t].pc = "idle" /\ th'[t].pc = "next"
        BY <4>1, AddIndexEffect
      <4>2. ASSUME NEW v \in Vectors, DeleteIndex(t, v) PROVE Moved(t) /\ th' = th
        BY <4>2, DeleteIndexEffect DEF Moved, Types
      <4>3. ASSUME NEW g \in HeadIds, SearchIndex(t, g) PROVE Moved(t) /\ th' = th
        BY <4>3, SearchIndexEffect DEF Moved, Types
      <4>4. ASSUME ForceGC(t) PROVE Moved(t) /\ th[t].pc = "idle" /\ th'[t].pc = "gc"
        BY <4>4, ForceGCEffect DEF GoesTo
      <4> QED
        BY <3>1, <4>1, <4>2, <4>3, <4>4 DEF ClientStep, MovePCs
    <3>2. CASE TakeJob(t)
      BY <3>2, TakeJobEffect DEF MovePCs
    <3>3. CASE CollectNext(t)
      BY <3>3, CollectNextEffect, IdleFields
    <3>4. CASE NextSelection(t)
      BY <3>4, NextSelectionEffect, IdleFields DEF MovePCs
    <3>5. CASE HeadMiss(t)
      BY <3>5, HeadMissEffect DEF MovePCs, GoesTo
    <3>6. CASE CheckSize(t)
      BY <3>6, CheckSizeEffect DEF MovePCs, GoesTo, CallsSplit
    <3>7. CASE SelectHeads(t)
      BY <3>7, SelectHeadsEffect, IdleFields DEF MovePCs
    <3>8. CASE RecheckVersion(t)
      BY <3>8, RecheckVersionEffect, IdleFields DEF MovePCs, GoesTo
    <3>9. CASE Increment(t)
      BY <3>9, IncrementEffect DEF MovePCs, GoesTo
    <3> QED
      BY <1>3, <3>1, <3>2, <3>3, <3>4, <3>5, <3>6, <3>7, <3>8, <3>9
  <2>3. CASE th' = th
    BY <2>1, <2>3 DEF LockInv
  <2>4. CASE th' # th
    <3>1. KeepsLock(t) /\ KeepsMergeLock(t) /\ SplitReassigns(th'[t])
      BY <2>1, <2>2, <2>4 DEF KeepsLock, KeepsMergeLock, Locks, MergeHolds, SplitReassigns, MovePCs, SplitPCs
    <3> QED
      BY <2>2, <3>1, LockStep
  <2> QED
    BY <2>3, <2>4
<1> QED
  BY <1>2, <1>3

LEMMA LockSplit ==
    ASSUME Types, LockInv, NEW t \in Threads,
           \/ SplitHeadGone(t) \/ SplitCollect(t) \/ SplitOneCluster(t) \/ SplitTwoClusters(t)
           \/ KeepHead(t) \/ NewHead(t) \/ PutNewPosting(t) \/ Unlink(t) \/ Unlist(t) \/ CollectReAssign(t)
    PROVE  LockInv'
<1> DEFINE h == th[t].head
<1>1. th[t] \in ThreadStates /\ ThreadOK(th[t], version) /\ SplitReassigns(th[t])
  BY DEF Types, LockInv, SplitReassigns
<1>2. th[t].pc \in SplitPCs /\ h \in HeadIds /\ ~MergeHolds(th[t])
  <2>1. th[t].pc \in SplitPCs
    BY DEF SplitPCs, SplitHeadGone, SplitCollect, SplitOneCluster, SplitTwoClusters, KeepHead, NewHead, PutNewPosting,
           Unlink, Unlist, CollectReAssign
  <2> QED
    BY <1>1, <2>1 DEF ThreadOK, PlaceInv, SplitPCs, MergeHolds
<1>3. mergeLock' = mergeLock
  BY DEF SplitHeadGone, SplitCollect, SplitOneCluster, SplitTwoClusters, KeepHead, NewHead, PutNewPosting,
         Unlink, Unlist, CollectReAssign
<1>4. Locks(th[t]) => lock[Hash(h)] = t
  BY <1>2, HashRange DEF LockInv
<1>5. CASE SplitHeadGone(t) \/ SplitCollect(t) \/ SplitOneCluster(t)
  <2>1. CanLock(t, h) /\ Release(h) /\ Moved(t) /\ Returns(th'[t], th[t])
    BY <1>5, SplitHeadGoneEffect, SplitKeepsEffect
  <2>2. ~Locks(th'[t]) /\ ~MergeHolds(th'[t]) /\ SplitReassigns(th'[t])
    BY <1>1, <2>1, ReturnsLock
  <2>3. DropsLock(t, h)
    BY <1>2, <2>1, <2>2, SplitMayLock DEF DropsLock
  <2>9. KeepsMergeLock(t)
    BY <1>2, <1>3, <2>2 DEF KeepsMergeLock
  <2> QED
    BY <1>2, <2>1, <2>2, <2>3, <2>9, LockStep
<1>6. CASE SplitTwoClusters(t)
  <2>1. CanLock(t, h) /\ Acquire(t, h) /\ Moved(t) /\ th'[t].pc = "newhead" /\ SameCall(th'[t], th[t])
    BY <1>6, SplitTwoClustersEffect
  <2>2. Locks(th'[t]) /\ ~MergeHolds(th'[t]) /\ SplitReassigns(th'[t]) /\ th'[t].head = h
    BY <1>1, <1>2, <2>1 DEF Locks, SplitPCs, MergeHolds, SplitReassigns, SameCall
  <2>3. TakesLock(t, h)
    BY <1>2, <2>1, <2>2, SplitMayLock DEF TakesLock
  <2>9. KeepsMergeLock(t)
    BY <1>2, <1>3, <2>2 DEF KeepsMergeLock
  <2> QED
    BY <1>2, <2>1, <2>2, <2>3, <2>9, LockStep
<1>7. CASE KeepHead(t) \/ NewHead(t) \/ PutNewPosting(t)
  <2>1. /\ lock' = lock /\ Moved(t) /\ SameCall(th'[t], th[t]) /\ th[t].pc \in {"newhead", "put"}
        /\ th'[t].pc \in {"newhead", "put", "unlink"}
    BY <1>7, KeepHeadEffect, NewHeadEffect, PutNewPostingEffect DEF Advances
  <2>2. KeepsLock(t) /\ ~MergeHolds(th'[t]) /\ SplitReassigns(th'[t])
    BY <1>1, <1>2, <2>1 DEF Locks, SplitPCs, MergeHolds, KeepsLock, SplitReassigns, SameCall
  <2>9. KeepsMergeLock(t)
    BY <1>2, <1>3, <2>2 DEF KeepsMergeLock
  <2> QED
    BY <1>2, <2>1, <2>2, <2>9, LockStep
<1>8. CASE Unlink(t)
  <2>1. /\ th[t].pc = "unlink" /\ Moved(t) /\ GoesTo(th'[t], th[t], "unlist")
        /\ \/ th[t].after = "append" /\ lock' = lock
           \/ th[t].after # "append" /\ Release(h)
    BY <1>8, UnlinkEffect
  <2>2. Locks(th[t]) /\ ~MergeHolds(th'[t]) /\ SplitReassigns(th'[t])
    BY <1>1, <1>2, <2>1 DEF Locks, SplitPCs, MergeHolds, SplitReassigns, GoesTo, SameCall
  <2>3. KeepsLock(t) \/ DropsLock(t, h)
    BY <1>2, <1>4, <2>1, <2>2 DEF Locks, SplitPCs, MergeHolds, KeepsLock, DropsLock, GoesTo, SameCall
  <2>9. KeepsMergeLock(t)
    BY <1>2, <1>3, <2>2 DEF KeepsMergeLock
  <2> QED
    BY <1>2, <2>1, <2>2, <2>3, <2>9, LockStep
<1>9. CASE Unlist(t)
  <2>1. /\ th[t].pc = "unlist" /\ Moved(t) /\ lock' = lock
        /\ \/ th[t].reassign /\ GoesTo(th'[t], th[t], "collect")
           \/ ~th[t].reassign /\ Returns(th'[t], th[t])
    BY <1>9, UnlistEffect
  <2>2. KeepsLock(t) /\ ~MergeHolds(th'[t]) /\ SplitReassigns(th'[t])
    <3>1. CASE GoesTo(th'[t], th[t], "collect")
      BY <1>1, <1>2, <2>1, <3>1 DEF Locks, SplitPCs, MergeHolds, KeepsLock, SplitReassigns, GoesTo, SameCall
    <3>2. CASE ~th[t].reassign /\ Returns(th'[t], th[t])
      <4>1. ~Locks(th'[t]) /\ ~MergeHolds(th'[t]) /\ SplitReassigns(th'[t])
        BY <1>1, <3>2, ReturnsLock
      <4>2. ~Locks(th[t])
        BY <1>1, <1>2, <2>1, <3>2 DEF Locks, SplitReassigns
      <4> QED
        BY <2>1, <4>1, <4>2 DEF KeepsLock
    <3> QED
      BY <2>1, <3>1, <3>2
  <2>9. KeepsMergeLock(t)
    BY <1>2, <1>3, <2>2 DEF KeepsMergeLock
  <2> QED
    BY <1>2, <2>1, <2>2, <2>9, LockStep
<1>10. CASE CollectReAssign(t)
  <2>1. /\ th[t].pc = "collect" /\ Moved(t) /\ Returns(th'[t], th[t])
        /\ \/ th[t].after = "append" /\ Release(h)
           \/ th[t].after # "append" /\ lock' = lock
    BY <1>10, CollectReAssignEffect
  <2>2. ~Locks(th'[t]) /\ ~MergeHolds(th'[t]) /\ SplitReassigns(th'[t])
    BY <1>1, <2>1, ReturnsLock
  <2>3. KeepsLock(t) \/ DropsLock(t, h)
    BY <1>2, <1>4, <2>1, <2>2 DEF Locks, SplitPCs, KeepsLock, DropsLock
  <2>9. KeepsMergeLock(t)
    BY <1>2, <1>3, <2>2 DEF KeepsMergeLock
  <2> QED
    BY <1>2, <2>1, <2>2, <2>3, <2>9, LockStep
<1> QED
  BY <1>5, <1>6, <1>7, <1>8, <1>9, <1>10

LEMMA LockMerge ==
    ASSUME Types, LockInv, NEW t \in Threads,
           \/ MergeBusy(t) \/ MergeStart(t) \/ MergeHeadGone(t) \/ MergeNotNeeded(t) \/ MergeRead(t)
           \/ (\E o \in HeadIds : MergePick(t, o)) \/ MergeOtherGone(t) \/ MergeWith(t) \/ MergeNoNeighbour(t)
           \/ MergeReassign(t)
    PROVE  LockInv'
<1> DEFINE h == th[t].head
<1>1. th[t] \in ThreadStates /\ ThreadOK(th[t], version)
  BY DEF Types
<1>2. th[t].pc \in MergePCs /\ h \in HeadIds
  <2>1. th[t].pc \in MergePCs
    BY DEF MergePCs, MergeBusy, MergeStart, MergeHeadGone, MergeNotNeeded, MergeRead, MergePick, MergeOtherGone, MergeWith,
           MergeNoNeighbour, MergeReassign
  <2> QED
    BY <1>1, <2>1 DEF ThreadOK, PlaceInv
<1>3. Locks(th[t]) => lock[Hash(h)] = t
  BY <1>2, HashRange DEF LockInv
<1>4. CASE MergeBusy(t) \/ MergeReassign(t)
  <2>1. /\ th[t].pc \in {"merge", "mergereassign"} /\ Moved(t) /\ th'[t] = Idle /\ lock' = lock /\ mergeLock' = mergeLock
    BY <1>4, MergeBusyEffect, MergeReassignEffect
  <2>2. KeepsLock(t) /\ KeepsMergeLock(t) /\ SplitReassigns(th'[t])
    BY <2>1, IdleLocks DEF KeepsLock, KeepsMergeLock, Locks, SplitPCs, MergeHolds
  <2> QED
    BY <2>1, <2>2, LockStep
<1>5. CASE MergeStart(t)
  <2>1. /\ th[t].pc = "merge" /\ mergeLock = None /\ mergeLock' = t /\ Moved(t) /\ GoesTo(th'[t], th[t], "mergelock")
        /\ lock' = lock
    BY <1>5, MergeStartEffect
  <2>2. KeepsLock(t) /\ TakesMergeLock(t) /\ SplitReassigns(th'[t])
    BY <2>1 DEF KeepsLock, TakesMergeLock, SplitReassigns, Locks, SplitPCs, MergeHolds, GoesTo
  <2> QED
    BY <2>1, <2>2, LockStep
<1>6. CASE MergeHeadGone(t) \/ MergeNotNeeded(t)
  <2>1. th[t].pc = "mergelock" /\ mergeLock' = None /\ Moved(t) /\ th'[t] = Idle /\ lock' = lock
    BY <1>6, MergeHeadGoneEffect, MergeNotNeededEffect
  <2>2. KeepsLock(t) /\ DropsMergeLock(t) /\ SplitReassigns(th'[t])
    BY <2>1, IdleLocks DEF KeepsLock, DropsMergeLock, Locks, SplitPCs, MergeHolds
  <2> QED
    BY <2>1, <2>2, LockStep
<1>7. CASE MergeRead(t)
  <2>1. /\ th[t].pc = "mergelock" /\ Free(h) /\ Acquire(t, h) /\ Moved(t) /\ th'[t].pc = "mergewith"
        /\ SameCall(th'[t], th[t]) /\ mergeLock' = mergeLock
    BY <1>7, MergeReadEffect
  <2>2. TakesLock(t, h) /\ KeepsMergeLock(t) /\ SplitReassigns(th'[t])
    BY <1>2, <2>1 DEF TakesLock, KeepsMergeLock, SplitReassigns, Free, SameCall, Locks, SplitPCs, MergeHolds
  <2> QED
    BY <1>2, <2>1, <2>2, LockStep
<1>8. ASSUME (\E o \in HeadIds : MergePick(t, o)) \/ MergeOtherGone(t) PROVE LockInv'
  <2>1. /\ th[t].pc \in {"mergewith", "mergeother"} /\ th'[t].pc \in {"mergewith", "mergeother"} /\ Moved(t)
        /\ SameCall(th'[t], th[t]) /\ lock' = lock /\ mergeLock' = mergeLock
    BY <1>8, MergePickEffect, MergeOtherGoneEffect DEF StillAll, GoesTo
  <2>2. KeepsLock(t) /\ KeepsMergeLock(t) /\ SplitReassigns(th'[t])
    BY <2>1 DEF KeepsLock, KeepsMergeLock, SplitReassigns, SameCall, Locks, SplitPCs, MergeHolds
  <2> QED
    BY <2>1, <2>2, LockStep
<1>9. CASE MergeWith(t) \/ MergeNoNeighbour(t)
  <2>1. /\ th[t].pc \in {"mergewith", "mergeother"} /\ th'[t].pc \in {"idle", "mergereassign"} /\ Moved(t)
        /\ Release(h) /\ mergeLock' = None
    BY <1>9, MergeWithEffect, MergeNoNeighbourEffect, IdleFields
  <2>2. DropsLock(t, h) /\ DropsMergeLock(t) /\ SplitReassigns(th'[t])
    BY <1>2, <1>3, <2>1 DEF DropsLock, DropsMergeLock, SplitReassigns, Locks, SplitPCs, MergeHolds
  <2> QED
    BY <1>2, <2>1, <2>2, LockStep
<1> QED
  BY <1>4, <1>5, <1>6, <1>7, <1>8, <1>9

LEMMA LockNext ==
    ASSUME Types, LockInv, [Next]_vars
    PROVE  LockInv'
<1>1. CASE Next
  <2>1. PICK t \in Threads : ClientStep(t) \/ Work(t)
    BY <1>1 DEF Next
  <2> QED
    BY <2>1, LockAppend, LockSplit, LockMerge DEF Work
<1>2. CASE UNCHANGED vars
  BY <1>2 DEF vars, LockInv
<1> QED
  BY <1>1, <1>2

(***************************************************************************)
(* Lists                                                                   *)
(***************************************************************************)

\* The ids that t may use in its next step.
Known(t) == Used \cup {NoHead} \cup (IF th[t].pc = "put" THEN {Pending(t)} ELSE {})

Names(q, ids) == /\ q.todo \subseteq ids /\ q.prev \in ids /\ q.survivor \in ids /\ q.ids[1] \in ids /\ q.ids[2] \in ids
                 /\ q.pc # "gc" => q.head \in ids

LEMMA KnownHas ==
    ASSUME Types, NEW t \in Threads
    PROVE  /\ heads \subseteq Known(t) /\ splitList \subseteq Known(t) /\ mergeList \subseteq Known(t)
           /\ \A j \in JobSet : JobRef(j) \in Known(t)
           /\ Names(th[t], Known(t)) /\ NoHead \in Known(t)
<1>1. Refers(th[t]) \subseteq Known(t) /\ NoHead \in Known(t)
  BY DEF Known, Used
<1>2. /\ th[t].todo \subseteq Known(t) /\ th[t].prev \in Known(t) /\ th[t].survivor \in Known(t)
      /\ th[t].pc # "gc" => th[t].head \in Known(t)
  BY <1>1 DEF Refers
<1>3. ASSUME NEW j \in 1..2 PROVE th[t].ids[j] \in Known(t)
  <2>1. CASE th[t].pc = "put" /\ j = th[t].k
    BY <2>1 DEF Known, Pending
  <2>2. CASE ~(th[t].pc = "put" /\ j = th[t].k)
    BY <1>1, <2>2 DEF Refers
  <2> QED
    BY <2>1, <2>2
<1>4. /\ heads \subseteq Known(t) /\ splitList \subseteq Known(t) /\ mergeList \subseteq Known(t)
      /\ \A j \in JobSet : JobRef(j) \in Known(t)
  BY DEF Known, Used
<1> QED
  BY <1>1, <1>2, <1>3, <1>4 DEF Names

LEMMA FreshStep ==
    ASSUME Types, FreshInv, NEW t \in Threads, Moved(t), nextHead' = nextHead, th'[t].pc # "put",
           heads' \subseteq Known(t), splitList' \subseteq Known(t), mergeList' \subseteq Known(t),
           \A j \in JobSet' : JobRef(j) \in Known(t),
           Names(th'[t], Known(t))
    PROVE  FreshInv'
<1>1. \A u \in Threads : u # t => th'[u] = th[u] /\ Pending(u)' = Pending(u)
  BY DEF Moved, Pending
<1>2. Refers(th'[t]) \subseteq Known(t)
  BY DEF Refers, Names
<1>3. Used' \subseteq Known(t)
  <2>1. \A u \in Threads : Refers(th'[u]) \subseteq Known(t)
    BY <1>1, <1>2 DEF Known, Used
  <2>2. Used' = heads' \cup splitList' \cup mergeList' \cup {JobRef(j) : j \in JobSet'} \cup UNION {Refers(th'[u]) : u \in Threads}
    BY DEF Used
  <2> QED
    BY <2>1, <2>2
<1>4. Known(t) \subseteq -1..(nextHead - 1)
  <2>1. /\ nextHead \in Nat /\ Used \subseteq -1..(nextHead - 1)
        /\ th[t].pc = "put" => Pending(t) \in 0..(nextHead - 1)
    BY BoundAssumption DEF FreshInv, Types
  <2>2. NoHead \in -1..(nextHead - 1) /\ 0..(nextHead - 1) \subseteq -1..(nextHead - 1)
    BY <2>1 DEF NoHead
  <2> HIDE DEF Used
  <2> QED
    BY <2>1, <2>2 DEF Known
<1>5. ASSUME NEW u \in Threads, th'[u].pc = "put"
      PROVE  Pending(u)' \in 0..(nextHead - 1) /\ Pending(u)' \notin Used' /\ \A v \in Threads \ {u} : th'[v].pc = "put" => Pending(v)' # Pending(u)'
  <2>1. u # t /\ th[u].pc = "put" /\ Pending(u)' = Pending(u)
    BY <1>1, <1>5
  <2>2. Pending(u) \in 0..(nextHead - 1) /\ Pending(u) \notin Known(t)
    BY <2>1 DEF FreshInv, Known, NoHead
  <2> QED
    BY <1>1, <1>3, <2>1, <2>2 DEF FreshInv
<1> QED
  BY <1>3, <1>4, <1>5 DEF FreshInv

LEMMA FreshInit == Init => FreshInv /\ ListInv
<1> SUFFICES ASSUME Init PROVE FreshInv /\ ListInv
  OBVIOUS
<1>1. \A t \in Threads : th[t] = Idle
  BY DEF Init
<1>2. Refers(Idle) = {NoHead}
  BY IdleFields DEF Refers
<1>3. JobSet = {}
  BY DEF Init, JobSet
<1>4. heads = 0..1 /\ keys = 0..1 /\ splitList = {} /\ mergeList = {} /\ nextHead = 2
  BY DEF Init
<1>5. Used \subseteq -1..1
  BY <1>1, <1>2, <1>3, <1>4 DEF Used, NoHead
<1>6. \A t \in Threads : th[t].pc # "put"
  BY <1>1, IdleFields
<1> QED
  BY <1>4, <1>5, <1>6 DEF FreshInv, ListInv

LEMMA ListStep ==
    ASSUME Types, ListInv, NEW t \in Threads, Moved(t), keys' = heads',
           \A h \in splitList' \cap heads' : h \in splitList \cap heads \/ SplitJob(h) \in JobSet',
           \A h \in mergeList' \cap heads' : h \in mergeList \cap heads \/ MergeJob(h, FALSE) \in JobSet',
           \A j \in JobSet : \/ j \in JobSet'
                             \/ j.kind = "split" /\ Splitting(th'[t], j.head)
                             \/ j.kind = "merge" /\ Merging(th'[t], j.head)
                             \/ j.kind = "reassign",
           \A h \in splitList' \cap heads' : Splitting(th[t], h) => Splitting(th'[t], h),
           \A h \in mergeList' \cap heads' :
             Merging(th[t], h) => Merging(th'[t], h) \/ MergeJob(h, TRUE) \in JobSet' \/ MergeJob(h, FALSE) \in JobSet'
    PROVE  ListInv'
<1>1. \A u \in Threads : u # t => th'[u] = th[u]
  BY DEF Moved
<1>2. ASSUME NEW h \in splitList' \cap heads'
      PROVE  SplitJob(h) \in JobSet' \/ \E u \in Threads : Splitting(th'[u], h)
  <2>1. CASE SplitJob(h) \in JobSet'
    BY <2>1
  <2>2. CASE SplitJob(h) \in JobSet /\ SplitJob(h) \notin JobSet'
    <3>1. SplitJob(h).kind = "split" /\ SplitJob(h).head = h
      BY DEF SplitJob
    <3> QED
      BY <2>2, <3>1
  <2>3. ASSUME NEW u \in Threads, Splitting(th[u], h) PROVE Splitting(th'[u], h)
    BY <1>1, <1>2, <2>3
  <2> QED
    BY <1>2, <2>1, <2>2, <2>3 DEF ListInv, SplitComing
<1>3. ASSUME NEW h \in mergeList' \cap heads'
      PROVE  MergeJob(h, TRUE) \in JobSet' \/ MergeJob(h, FALSE) \in JobSet' \/ \E u \in Threads : Merging(th'[u], h)
  <2>1. ASSUME NEW b \in BOOLEAN, MergeJob(h, b) \in JobSet
        PROVE  MergeJob(h, b) \in JobSet' \/ Merging(th'[t], h)
    <3>1. MergeJob(h, b).kind = "merge" /\ MergeJob(h, b).head = h
      BY DEF MergeJob
    <3> QED
      BY <2>1, <3>1
  <2>2. ASSUME NEW u \in Threads, Merging(th[u], h)
        PROVE  Merging(th'[u], h) \/ MergeJob(h, TRUE) \in JobSet' \/ MergeJob(h, FALSE) \in JobSet'
    BY <1>1, <1>3, <2>2
  <2>3. MergeComing(h) \/ MergeJob(h, FALSE) \in JobSet'
    BY <1>3 DEF ListInv
  <2> QED
    BY <2>1, <2>2, <2>3 DEF MergeComing
<1> QED
  BY <1>2, <1>3 DEF ListInv, SplitComing, MergeComing

\* A step that changes neither the heads, nor the lists, nor the jobs.
LEMMA ListQuietStep ==
    ASSUME Types, FreshInv, ListInv, NEW t \in Threads, Moved(t), th'[t].pc # "put",
           UNCHANGED <<heads, keys, nextHead, splitList, mergeList, jobs>>,
           Names(th'[t], Known(t)),
           \A h \in heads : Splitting(th[t], h) => Splitting(th'[t], h),
           \A h \in heads : Merging(th[t], h) => Merging(th'[t], h)
    PROVE  FreshInv' /\ ListInv'
<1>1. /\ heads \subseteq Known(t) /\ splitList \subseteq Known(t) /\ mergeList \subseteq Known(t)
      /\ \A j \in JobSet : JobRef(j) \in Known(t)
  BY KnownHas
<1>2. JobSet' = JobSet
  BY JobsSame
<1>3. FreshInv'
  <2>1. /\ nextHead' = nextHead /\ heads' \subseteq Known(t) /\ splitList' \subseteq Known(t) /\ mergeList' \subseteq Known(t)
        /\ \A j \in JobSet' : JobRef(j) \in Known(t)
    BY <1>1, <1>2
  <2> QED
    BY <2>1, FreshStep
<1>4. ListInv'
  <2>1. /\ keys' = heads' /\ heads' = heads /\ splitList' = splitList /\ mergeList' = mergeList
    BY DEF ListInv
  <2> QED
    BY <1>2, <2>1, ListStep
<1> QED
  BY <1>3, <1>4

\* A thread that goes on, or returns from Split, knows what it knew.
LEMMA GoesNames ==
    ASSUME NEW q, NEW r, NEW ids, NEW pc, Names(r, ids), GoesTo(q, r, pc), r.pc # "gc"
    PROVE  Names(q, ids)
BY DEF Names, GoesTo, SameVector, SameCall, SameSplit, SameMerge

LEMMA IdleNames ==
    ASSUME NEW ids, NoHead \in ids
    PROVE  Names(Idle, ids)
BY IdleFields DEF Names

LEMMA ReturnsNames ==
    ASSUME NEW q, NEW r, NEW ids, Names(r, ids), NoHead \in ids, Returns(q, r), r.pc # "gc"
    PROVE  Names(q, ids)
<1>1. CASE q = Idle
  BY <1>1, IdleNames
<1>2. CASE q # Idle
  BY <1>2, IdleFields DEF Returns, Names, SameVector, SameCall, SameSplit, SameMerge
<1> QED
  BY <1>1, <1>2

\* The jobs that a step adds refer to what its thread knows.
LEMMA JobRefs ==
    /\ \A e, p : ReassignJob(e, p).kind = "reassign" /\ JobRef(ReassignJob(e, p)) = p
    /\ \A h : SplitJob(h).kind = "split" /\ SplitJob(h).head = h /\ JobRef(SplitJob(h)) = h
    /\ \A h, b : MergeJob(h, b).kind = "merge" /\ MergeJob(h, b).head = h /\ JobRef(MergeJob(h, b)) = h
BY DEF ReassignJob, SplitJob, MergeJob, JobRef

LEMMA HeadVectorJobRefs ==
    ASSUME Types, NEW h \in HeadIds, NEW j \in Range(HeadVectorJobs(h))
    PROVE  JobRef(j) = NoHead /\ j.kind = "reassign"
<1> DEFINE e == <<headVector[h], version[headVector[h]]>>
<1>1. j = ReassignJob(e, NoHead)
  BY HeadVectorJobsAre
<1> HIDE DEF e
<1>2. ReassignJob(e, NoHead).kind = "reassign" /\ ReassignJob(e, NoHead).prev = NoHead
  BY DEF ReassignJob
<1> QED
  BY <1>1, <1>2 DEF JobRef

\* A step that changes neither the heads nor the lists of heads, and adds jobs.
LEMMA ListJobsStep ==
    ASSUME Types, FreshInv, ListInv, NEW t \in Threads, Moved(t), th'[t].pc # "put",
           UNCHANGED <<heads, keys, nextHead>>,
           JobSet \subseteq JobSet', \A j \in JobSet' \ JobSet : JobRef(j) \in Known(t),
           Names(th'[t], Known(t)),
           \A h \in splitList' : h \in splitList \/ (SplitJob(h) \in JobSet' /\ h \in Known(t)),
           \A h \in mergeList' : h \in mergeList \/ (MergeJob(h, FALSE) \in JobSet' /\ h \in Known(t)),
           \A h \in splitList' \cap heads : Splitting(th[t], h) => Splitting(th'[t], h),
           \A h \in mergeList' \cap heads :
             Merging(th[t], h) => Merging(th'[t], h) \/ MergeJob(h, TRUE) \in JobSet' \/ MergeJob(h, FALSE) \in JobSet'
    PROVE  FreshInv' /\ ListInv'
<1>1. /\ heads \subseteq Known(t) /\ splitList \subseteq Known(t) /\ mergeList \subseteq Known(t)
      /\ \A j \in JobSet : JobRef(j) \in Known(t)
  BY KnownHas
<1>2. FreshInv'
  <2>1. /\ nextHead' = nextHead /\ heads' \subseteq Known(t) /\ splitList' \subseteq Known(t) /\ mergeList' \subseteq Known(t)
        /\ \A j \in JobSet' : JobRef(j) \in Known(t)
    BY <1>1
  <2> QED
    BY <2>1, FreshStep
<1>3. ListInv'
  <2>1. keys' = heads' /\ heads' = heads
    BY DEF ListInv
  <2> QED
    BY <2>1, ListStep
<1> QED
  BY <1>2, <1>3

LEMMA ListAppend ==
    ASSUME Types, FreshInv, ListInv, NEW t \in Threads,
           ClientStep(t) \/ TakeJob(t) \/ CollectNext(t)
           \/ NextSelection(t) \/ HeadMiss(t) \/ AppendPosting(t) \/ CheckSize(t)
           \/ SelectHeads(t) \/ RecheckVersion(t) \/ Increment(t)
    PROVE  FreshInv' /\ ListInv'
<1>1. /\ th[t] \in ThreadStates /\ Names(th[t], Known(t)) /\ NoHead \in Known(t)
      /\ heads \subseteq Known(t) /\ splitList \subseteq Known(t) /\ mergeList \subseteq Known(t)
      /\ \A j \in JobSet : JobRef(j) \in Known(t)
      /\ jobs \in Seq(Jobs)
  BY KnownHas DEF Types
<1>2. Names(Idle, Known(t))
  BY <1>1, IdleNames
<1>3. ASSUME NEW v \in Vectors, AddIndex(t, v) PROVE FreshInv' /\ ListInv'
  <2>1. /\ th[t].pc = "idle" /\ Moved(t) /\ th'[t].pc = "next" /\ th'[t].todo \in SUBSET heads
        /\ th'[t].prev = NoHead /\ SameCall(th'[t], Idle) /\ SameSplit(th'[t], Idle) /\ SameMerge(th'[t], Idle)
        /\ UNCHANGED <<heads, keys, nextHead, splitList, mergeList, jobs>>
    BY <1>3, AddIndexEffect
  <2>2. Names(th'[t], Known(t))
    BY <1>1, <2>1, IdleFields DEF Names, SameCall, SameSplit, SameMerge
  <2>3. \A h : ~Splitting(th[t], h) /\ ~Merging(th[t], h)
    BY <2>1 DEF Splitting, Merging, SplitPCs, MergePCs
  <2> QED
    BY <2>1, <2>2, <2>3, ListQuietStep
<1>4. ASSUME NEW v \in Vectors, DeleteIndex(t, v) PROVE FreshInv' /\ ListInv'
  <2>1. /\ th[t].pc = "idle" /\ th' = th /\ Moved(t)
        /\ UNCHANGED <<heads, keys, nextHead, splitList, mergeList, jobs>>
    BY <1>4, DeleteIndexEffect DEF DeleteIndex, Moved, Types
  <2>2. th'[t].pc # "put" /\ Names(th'[t], Known(t))
    BY <1>1, <2>1
  <2>3. \A h : (Splitting(th[t], h) => Splitting(th'[t], h)) /\ (Merging(th[t], h) => Merging(th'[t], h))
    BY <2>1
  <2> QED
    BY <2>1, <2>2, <2>3, ListQuietStep
<1>5. ASSUME NEW g \in HeadIds, SearchIndex(t, g) PROVE FreshInv' /\ ListInv'
  <2>1. /\ th[t].pc = "idle" /\ th' = th /\ Moved(t) /\ g \in heads
        /\ mergeList' = mergeList \cup {g} /\ jobs' = Append(jobs, MergeJob(g, FALSE))
        /\ UNCHANGED <<heads, keys, nextHead, splitList>>
    BY <1>5, SearchIndexEffect DEF SearchIndex, Moved, Types
  <2>2. th'[t].pc # "put" /\ Names(th'[t], Known(t))
    BY <1>1, <2>1
  <2>3. MergeJob(g, FALSE) \in Jobs
    BY DEF Jobs, MergeJob
  <2>4. JobSet' = JobSet \cup {MergeJob(g, FALSE)} /\ JobRef(MergeJob(g, FALSE)) = g
    BY <1>1, <2>1, <2>3, JobsAppended, JobRefs
  <2>5. \A h : (Splitting(th[t], h) => Splitting(th'[t], h)) /\ (Merging(th[t], h) => Merging(th'[t], h))
    BY <2>1
  <2> QED
    BY <1>1, <2>1, <2>2, <2>4, <2>5, ListJobsStep
<1>6. ASSUME ForceGC(t) PROVE FreshInv' /\ ListInv'
  <2>1. /\ th[t].pc = "idle" /\ Moved(t) /\ GoesTo(th'[t], Idle, "gc")
        /\ UNCHANGED <<heads, keys, nextHead, splitList, mergeList, jobs>>
    BY <1>6, ForceGCEffect
  <2>2. Names(th'[t], Known(t))
    BY <1>2, <2>1, IdleFields, GoesNames
  <2>3. th'[t].pc # "put" /\ \A h : ~Splitting(th[t], h) /\ ~Merging(th[t], h)
    BY <2>1 DEF GoesTo, Splitting, Merging, SplitPCs, MergePCs
  <2> QED
    BY <2>1, <2>2, <2>3, ListQuietStep
<1>7. ASSUME TakeJob(t) PROVE FreshInv' /\ ListInv'
  <2> DEFINE j == Head(jobs)
  <2>1. /\ th[t].pc = "idle" /\ jobs # <<>> /\ jobs' = Tail(jobs) /\ Moved(t)
        /\ th'[t].todo = {} /\ SameSplit(th'[t], Idle) /\ SameMerge(th'[t], Idle) /\ th'[t].after = "idle"
        /\ UNCHANGED <<heads, keys, nextHead, splitList, mergeList>>
        /\ \/ j.kind = "split" /\ th'[t].pc = "split" /\ th'[t].head = j.head /\ th'[t].prev = NoHead
           \/ j.kind = "merge" /\ th'[t].pc = "merge" /\ th'[t].head = j.head /\ th'[t].prev = NoHead
           \/ j.kind = "reassign" /\ th'[t].pc = "reassign" /\ th'[t].prev = j.prev /\ th'[t].head = NoHead
    BY <1>7, TakeJobEffect, IdleFields DEF SameVector
  <2>2. JobSet' \subseteq JobSet /\ JobSet \subseteq JobSet' \cup {j} /\ j \in JobSet
    BY <1>1, <2>1, JobTaken, HeadOfJobs
  <2>3. JobRef(j) \in Known(t)
    BY <1>1, <2>2
  <2> HIDE DEF j
  <2>4. Names(th'[t], Known(t)) /\ th'[t].pc # "put"
    BY <1>1, <2>1, <2>3, IdleFields DEF Names, JobRef, SameSplit, SameMerge
  <2>5. \A h : ~Splitting(th[t], h) /\ ~Merging(th[t], h)
    BY <2>1 DEF Splitting, Merging, SplitPCs, MergePCs
  <2>6. FreshInv'
    <3>1. nextHead' = nextHead /\ heads' \subseteq Known(t) /\ splitList' \subseteq Known(t) /\ mergeList' \subseteq Known(t)
      BY <1>1, <2>1
    <3>2. \A i \in JobSet' : JobRef(i) \in Known(t)
      BY <1>1, <2>2
    <3> QED
      BY <2>1, <2>4, <3>1, <3>2, FreshStep
  <2>7. ListInv'
    <3>1. \/ j.kind = "split" /\ Splitting(th'[t], j.head)
          \/ j.kind = "merge" /\ Merging(th'[t], j.head)
          \/ j.kind = "reassign"
      BY <2>1 DEF Splitting, Merging, SplitPCs, MergePCs
    <3>2. keys' = heads' /\ heads' = heads /\ splitList' = splitList /\ mergeList' = mergeList
      BY <2>1 DEF ListInv
    <3>3. \A i \in JobSet : \/ i \in JobSet'
                            \/ i.kind = "split" /\ Splitting(th'[t], i.head)
                            \/ i.kind = "merge" /\ Merging(th'[t], i.head)
                            \/ i.kind = "reassign"
      BY <2>2, <3>1
    <3> QED
      BY <2>1, <2>5, <3>2, <3>3, ListStep
  <2> QED
    BY <2>6, <2>7
<1>8. ASSUME CollectNext(t) PROVE FreshInv' /\ ListInv'
  <2>1. /\ th[t].pc = "gc" /\ Moved(t) /\ UNCHANGED <<heads, keys, nextHead, splitList, mergeList, jobs>>
        /\ \/ th'[t] = Idle
           \/ /\ th'[t].pc = IF th'[t].head \in heads THEN "split" ELSE "gc"
              /\ th'[t].todo = {} /\ SameVector(th'[t], Idle) /\ SameSplit(th'[t], Idle) /\ SameMerge(th'[t], Idle)
    BY <1>8, CollectNextEffect
  <2>2. Names(th'[t], Known(t)) /\ th'[t].pc # "put"
    <3>1. CASE th'[t] = Idle
      BY <1>2, <3>1, IdleFields
    <3>2. CASE th'[t] # Idle
      BY <1>1, <2>1, <3>2, IdleFields DEF Names, SameVector, SameSplit, SameMerge
    <3> QED
      BY <3>1, <3>2
  <2>3. \A h : ~Splitting(th[t], h) /\ ~Merging(th[t], h)
    BY <2>1 DEF Splitting, Merging, SplitPCs, MergePCs
  <2> QED
    BY <2>1, <2>2, <2>3, ListQuietStep
<1>9. ASSUME NextSelection(t) \/ SelectHeads(t) \/ RecheckVersion(t) \/ Increment(t) PROVE FreshInv' /\ ListInv'
  <2>1. /\ th[t].pc \in MovePCs /\ Moved(t) /\ UNCHANGED <<heads, keys, nextHead, splitList, mergeList, jobs>>
        /\ \/ th'[t] = Idle
           \/ /\ th'[t].pc \in MovePCs /\ th'[t].head \in th[t].todo \cup {th[t].head} /\ th'[t].todo \subseteq th[t].todo \cup heads
              /\ th'[t].prev = th[t].prev /\ SameSplit(th'[t], th[t]) /\ SameMerge(th'[t], th[t])
    <3>1. CASE NextSelection(t)
      BY <3>1, NextSelectionEffect DEF MovePCs, StillAll, SameVector
    <3>2. CASE SelectHeads(t)
      BY <3>2, SelectHeadsEffect DEF MovePCs, StillAll, SameVector, SameCall
    <3>3. CASE RecheckVersion(t)
      BY <3>3, RecheckVersionEffect DEF MovePCs, StillAll, GoesTo, SameVector, SameCall, SameSplit, SameMerge
    <3>4. CASE Increment(t)
      BY <3>4, IncrementEffect DEF MovePCs, GoesTo, SameVector, SameCall, SameSplit, SameMerge
    <3> QED
      BY <1>9, <3>1, <3>2, <3>3, <3>4
  <2>2. Names(th'[t], Known(t)) /\ th'[t].pc # "put"
    <3>1. CASE th'[t] = Idle
      BY <1>2, <3>1, IdleFields
    <3>2. CASE th'[t] # Idle
      BY <1>1, <2>1, <3>2 DEF MovePCs, Names, SameSplit, SameMerge
    <3> QED
      BY <3>1, <3>2
  <2>3. \A h : ~Splitting(th[t], h) /\ ~Merging(th[t], h)
    BY <2>1 DEF MovePCs, Splitting, Merging, SplitPCs, MergePCs
  <2> QED
    BY <2>1, <2>2, <2>3, ListQuietStep
<1>10. ASSUME HeadMiss(t) PROVE FreshInv' /\ ListInv'
  <2> DEFINE e == <<th[t].vid, th[t].ver>>
             j == ReassignJob(e, th[t].head)
  <2>1. /\ th[t].pc = "append" /\ Moved(t) /\ GoesTo(th'[t], th[t], "next")
        /\ jobs' = IF version[th[t].vid] = th[t].ver THEN Append(jobs, j) ELSE jobs
        /\ UNCHANGED <<heads, keys, nextHead, splitList, mergeList>>
    BY <1>10, HeadMissEffect
  <2>2. j \in Jobs
    <3>1. th[t].vid \in Vectors /\ th[t].head \in HeadIds /\ th[t].ver \in Nat
      BY <1>1, <2>1 DEF Types, ThreadOK, PlaceInv, Moves, MovePCs, ThreadStates
    <3> QED
      BY <3>1 DEF Jobs, ReassignJob, Entries, HeadRefs
  <2>3. JobRef(j) = th[t].head /\ th[t].head \in Known(t)
    BY <1>1, <2>1, JobRefs DEF Names
  <2> HIDE DEF j
  <2>4. JobSet' = JobSet \/ JobSet' = JobSet \cup {j}
    BY <1>1, <2>1, <2>2, JobsAppended, JobsSame
  <2>5. th'[t].pc # "put" /\ Names(th'[t], Known(t))
    BY <1>1, <2>1, GoesNames DEF GoesTo
  <2>6. \A h : ~Splitting(th[t], h) /\ ~Merging(th[t], h)
    BY <2>1 DEF Splitting, Merging, SplitPCs, MergePCs
  <2> QED
    BY <2>1, <2>3, <2>4, <2>5, <2>6, ListJobsStep
<1>11. ASSUME AppendPosting(t) PROVE FreshInv' /\ ListInv'
  <2>1. /\ th[t].pc = "append" /\ Moved(t) /\ UNCHANGED <<heads, keys, nextHead, splitList, mergeList, jobs>>
        /\ CallsSplit(th'[t], th[t], "append") \/ GoesTo(th'[t], th[t], "sized")
    BY <1>11, AppendPostingEffect
  <2>2. th'[t].pc # "put" /\ Names(th'[t], Known(t))
    BY <1>1, <2>1 DEF Names, CallsSplit, GoesTo, SameVector, SameCall, SameSplit, SameMerge
  <2>3. \A h : ~Splitting(th[t], h) /\ ~Merging(th[t], h)
    BY <2>1 DEF Splitting, Merging, SplitPCs, MergePCs
  <2> QED
    BY <2>1, <2>2, <2>3, ListQuietStep
<1>12. ASSUME CheckSize(t) PROVE FreshInv' /\ ListInv'
  <2> DEFINE g == th[t].head
  <2>1. /\ th[t].pc = "sized" /\ Moved(t) /\ UNCHANGED <<heads, keys, nextHead, mergeList>>
        /\ CallsSplit(th'[t], th[t], "next") \/ GoesTo(th'[t], th[t], "next")
        /\ \/ UNCHANGED <<jobs, splitList>>
           \/ splitList' = splitList \cup {g} /\ jobs' = Append(jobs, SplitJob(g))
    BY <1>12, CheckSizeEffect
  <2>2. th'[t].pc # "put" /\ Names(th'[t], Known(t)) /\ g \in Known(t)
    BY <1>1, <2>1 DEF Names, CallsSplit, GoesTo, SameVector, SameCall, SameSplit, SameMerge
  <2>3. \A h : ~Splitting(th[t], h) /\ ~Merging(th[t], h)
    BY <2>1 DEF Splitting, Merging, SplitPCs, MergePCs
  <2>4. CASE UNCHANGED <<jobs, splitList>>
    BY <2>1, <2>2, <2>3, <2>4, ListQuietStep
  <2>5. CASE splitList' = splitList \cup {g} /\ jobs' = Append(jobs, SplitJob(g))
    <3>1. g \in HeadIds
      BY <2>1 DEF Types, ThreadOK, PlaceInv
    <3>2. SplitJob(g) \in Jobs
      BY <3>1 DEF Jobs, SplitJob
    <3>3. JobSet' = JobSet \cup {SplitJob(g)} /\ JobRef(SplitJob(g)) = g
      BY <1>1, <2>5, <3>2, JobsAppended, JobRefs
    <3> QED
      BY <2>1, <2>2, <2>3, <2>5, <3>3, ListJobsStep
  <2> QED
    BY <2>1, <2>4, <2>5
<1> QED
  BY <1>3, <1>4, <1>5, <1>6, <1>7, <1>8, <1>9, <1>10, <1>11, <1>12 DEF ClientStep

LEMMA ListSplit ==
    ASSUME Types, FreshInv, ListInv, NEW t \in Threads,
           \/ SplitHeadGone(t) \/ SplitCollect(t) \/ SplitOneCluster(t) \/ SplitTwoClusters(t)
           \/ KeepHead(t) \/ NewHead(t) \/ PutNewPosting(t) \/ Unlink(t) \/ Unlist(t) \/ CollectReAssign(t)
    PROVE  FreshInv' /\ ListInv'
<1> DEFINE g == th[t].head
<1>1. /\ th[t] \in ThreadStates /\ Names(th[t], Known(t)) /\ NoHead \in Known(t)
      /\ heads \subseteq Known(t) /\ splitList \subseteq Known(t) /\ mergeList \subseteq Known(t)
      /\ \A j \in JobSet : JobRef(j) \in Known(t)
  BY KnownHas DEF Types
<1>2. ASSUME SplitHeadGone(t) PROVE FreshInv' /\ ListInv'
  <2>1. /\ th[t].pc = "split" /\ g \notin heads /\ Moved(t) /\ Returns(th'[t], th[t])
        /\ UNCHANGED <<heads, keys, nextHead, splitList, mergeList, jobs>>
    BY <1>2, SplitHeadGoneEffect
  <2>2. Names(th'[t], Known(t)) /\ th'[t].pc # "put"
    BY <1>1, <2>1, ReturnsNames, IdleFields DEF Returns, ThreadStates
  <2>3. \A h \in heads : ~Splitting(th[t], h) /\ ~Merging(th[t], h)
    BY <2>1 DEF Splitting, Merging, SplitPCs, MergePCs
  <2> QED
    BY <2>1, <2>2, <2>3, ListQuietStep
<1>3. ASSUME SplitCollect(t) \/ SplitOneCluster(t) PROVE FreshInv' /\ ListInv'
  <2>1. /\ th[t].pc = "split" /\ Moved(t) /\ Returns(th'[t], th[t]) /\ splitList' = splitList \ {g}
        /\ UNCHANGED <<heads, keys, nextHead, mergeList, jobs>>
    BY <1>3, SplitKeepsEffect
  <2>2. Names(th'[t], Known(t)) /\ th'[t].pc # "put"
    BY <1>1, <2>1, ReturnsNames, IdleFields DEF Returns, ThreadStates
  <2>3. \A h \in splitList' : ~Splitting(th[t], h)
    BY <2>1 DEF Splitting, Merging, SplitPCs, MergePCs
  <2>4. \A h : ~Merging(th[t], h)
    BY <2>1 DEF Splitting, Merging, SplitPCs, MergePCs
  <2>5. JobSet' = JobSet
    BY <2>1, JobsSame
  <2> QED
    BY <2>1, <2>2, <2>3, <2>4, <2>5, ListJobsStep
<1>4. ASSUME SplitTwoClusters(t) \/ KeepHead(t) PROVE FreshInv' /\ ListInv'
  <2>1. /\ th[t].pc \in SplitPCs \ {"collect", "put"} /\ th'[t].pc \in SplitPCs \ {"collect", "put"} /\ Moved(t)
        /\ UNCHANGED <<heads, keys, nextHead, splitList, mergeList, jobs>>
        /\ SameCall(th'[t], th[t]) /\ th'[t].todo = th[t].todo /\ SameVector(th'[t], th[t]) /\ SameMerge(th'[t], th[t])
        /\ th'[t].ids = th[t].ids \/ th'[t].ids = [th[t].ids EXCEPT ![th[t].k] = g]
    <3>1. CASE SplitTwoClusters(t)
      BY <3>1, SplitTwoClustersEffect DEF SplitPCs
    <3>2. CASE KeepHead(t)
      BY <3>2, KeepHeadEffect DEF SplitPCs, Advances
    <3> QED
      BY <1>4, <3>1, <3>2
  <2>2. Names(th'[t], Known(t)) /\ th'[t].pc # "put"
    <3>1. th'[t].ids[1] \in {th[t].ids[1], g} /\ th'[t].ids[2] \in {th[t].ids[2], g}
      BY <1>1, <2>1 DEF ThreadStates
    <3> QED
      BY <1>1, <2>1, <3>1 DEF Names, SplitPCs, SameVector, SameCall, SameMerge
  <2>3. \A h : (Splitting(th[t], h) => Splitting(th'[t], h)) /\ ~Merging(th[t], h)
    BY <2>1 DEF Splitting, Merging, SplitPCs, MergePCs, SameCall
  <2> QED
    BY <2>1, <2>2, <2>3, ListQuietStep
<1>5. ASSUME NewHead(t) PROVE FreshInv' /\ ListInv'
  <2>1. /\ th[t].pc = "newhead" /\ th'[t].pc = "put" /\ Moved(t) /\ nextHead \in HeadIds /\ nextHead' = nextHead + 1
        /\ UNCHANGED <<heads, keys, splitList, mergeList, jobs>>
        /\ SameCall(th'[t], th[t]) /\ th'[t].todo = th[t].todo /\ SameVector(th'[t], th[t]) /\ SameMerge(th'[t], th[t])
        /\ th'[t].ids = [th[t].ids EXCEPT ![th[t].k] = nextHead] /\ th'[t].k = th[t].k
    BY <1>5, NewHeadEffect
  <2>2. Pending(t)' = nextHead
    BY <1>1, <2>1 DEF Pending, ThreadStates
  <2>3. Refers(th'[t]) \subseteq Refers(th[t])
    <3>1. \A j \in 1..2 : j # th[t].k => th'[t].ids[j] = th[t].ids[j]
      BY <1>1, <2>1 DEF ThreadStates
    <3> QED
      BY <2>1, <3>1 DEF Refers, SameVector, SameCall, SameMerge
  <2>4. \A u \in Threads : u # t => th'[u] = th[u] /\ Pending(u)' = Pending(u)
    BY <2>1 DEF Moved, Pending
  <2>5. JobSet' = JobSet
    BY <2>1, JobsSame
  <2>6. Used' \subseteq Used
    <3>1. \A u \in Threads : Refers(th'[u]) \subseteq Refers(th[u])
      BY <2>3, <2>4
    <3>2. Used' = heads \cup splitList \cup mergeList \cup {JobRef(j) : j \in JobSet} \cup UNION {Refers(th'[u]) : u \in Threads}
      BY <2>1, <2>5 DEF Used
    <3> QED
      BY <3>1, <3>2 DEF Used
  <2>7. FreshInv'
    <3>1. /\ nextHead \in Nat /\ nextHead' = nextHead + 1 /\ Used \subseteq -1..(nextHead - 1)
      BY <2>1 DEF FreshInv, HeadIds
    <3>2. Used' \subseteq -1..(nextHead' - 1)
      <4>1. -1..(nextHead - 1) \subseteq -1..(nextHead' - 1)
        BY <3>1
      <4> QED
        BY <2>6, <3>1, <4>1
    <3>3. nextHead \in 0..(nextHead' - 1) /\ nextHead \notin Used' /\ 0..(nextHead - 1) \subseteq 0..(nextHead' - 1)
      <4>1. nextHead \notin -1..(nextHead - 1)
        BY <3>1
      <4> QED
        BY <2>6, <3>1, <4>1
    <3>4. ASSUME NEW u \in Threads, th'[u].pc = "put"
          PROVE  /\ Pending(u)' \in 0..(nextHead' - 1) /\ Pending(u)' \notin Used'
                 /\ \A v \in Threads \ {u} : th'[v].pc = "put" => Pending(v)' # Pending(u)'
      <4>1. \A v \in Threads : v # t /\ th'[v].pc = "put" => /\ Pending(v)' = Pending(v) /\ Pending(v) \in 0..(nextHead - 1)
                                                            /\ Pending(v) # nextHead /\ Pending(v) \notin Used
        BY <2>4, <3>1 DEF FreshInv
      <4>2. CASE u = t
        BY <2>2, <3>3, <4>1, <4>2
      <4>3. CASE u # t
        <5>1. \A v \in Threads \ {u} : v # t /\ th'[v].pc = "put" => Pending(v)' # Pending(u)'
          BY <2>4, <3>4, <4>3 DEF FreshInv
        <5> QED
          BY <2>2, <2>6, <3>3, <3>4, <4>1, <4>3, <5>1
      <4> QED
        BY <4>2, <4>3
    <3> QED
      BY <3>2, <3>4 DEF FreshInv
  <2>8. ListInv'
    <3>1. \A h : (Splitting(th[t], h) => Splitting(th'[t], h)) /\ ~Merging(th[t], h)
      BY <2>1 DEF Splitting, Merging, SplitPCs, MergePCs, SameCall
    <3>2. keys' = heads' /\ heads' = heads /\ splitList' = splitList /\ mergeList' = mergeList
      BY <2>1 DEF ListInv
    <3> QED
      BY <2>1, <2>5, <3>1, <3>2, ListStep
  <2> QED
    BY <2>7, <2>8
<1>6. ASSUME PutNewPosting(t) PROVE FreshInv' /\ ListInv'
  <2> DEFINE n == th[t].ids[th[t].k]
  <2>1. /\ th[t].pc = "put" /\ th'[t].pc \in {"unlink", "newhead"} /\ Moved(t)
        /\ heads' = heads \cup {n} /\ keys' = keys \cup {n}
        /\ UNCHANGED <<nextHead, splitList, mergeList, jobs>>
        /\ SameCall(th'[t], th[t]) /\ th'[t].todo = th[t].todo /\ SameVector(th'[t], th[t]) /\ SameMerge(th'[t], th[t])
        /\ th'[t].ids = th[t].ids
    BY <1>6, PutNewPostingEffect DEF Advances
  <2>2. Pending(t) = n /\ n \in Known(t) /\ n \notin Used
    BY <2>1 DEF Pending, Known, FreshInv
  <2>3. n \notin splitList /\ n \notin mergeList
    BY <2>2 DEF Used
  <2> HIDE DEF n
  <2>4. Names(th'[t], Known(t)) /\ th'[t].pc # "put"
    BY <1>1, <2>1 DEF Names, SameVector, SameCall, SameMerge
  <2>5. JobSet' = JobSet
    BY <2>1, JobsSame
  <2>6. FreshInv'
    <3>1. /\ nextHead' = nextHead /\ heads' \subseteq Known(t) /\ splitList' \subseteq Known(t) /\ mergeList' \subseteq Known(t)
          /\ \A j \in JobSet' : JobRef(j) \in Known(t)
      BY <1>1, <2>1, <2>2, <2>5
    <3> QED
      BY <2>1, <2>4, <3>1, FreshStep
  <2>7. ListInv'
    <3>1. \A h : (Splitting(th[t], h) => Splitting(th'[t], h)) /\ ~Merging(th[t], h)
      BY <2>1 DEF Splitting, Merging, SplitPCs, MergePCs, SameCall
    <3>2. /\ keys' = heads'
          /\ \A h \in splitList' \cap heads' : h \in splitList \cap heads
          /\ \A h \in mergeList' \cap heads' : h \in mergeList \cap heads
      BY <2>1, <2>3 DEF ListInv
    <3> QED
      BY <2>1, <2>5, <3>1, <3>2, ListStep
  <2> QED
    BY <2>6, <2>7
<1>7. ASSUME Unlink(t) PROVE FreshInv' /\ ListInv'
  <2>1. /\ th[t].pc = "unlink" /\ Moved(t) /\ GoesTo(th'[t], th[t], "unlist")
        /\ heads' \subseteq heads /\ (keys = heads => keys' = heads') /\ UNCHANGED <<nextHead, splitList, mergeList, jobs>>
    BY <1>7, UnlinkEffect
  <2>2. Names(th'[t], Known(t)) /\ th'[t].pc # "put"
    BY <1>1, <2>1, GoesNames DEF GoesTo
  <2>3. JobSet' = JobSet
    BY <2>1, JobsSame
  <2>4. FreshInv'
    <3>1. /\ nextHead' = nextHead /\ heads' \subseteq Known(t) /\ splitList' \subseteq Known(t) /\ mergeList' \subseteq Known(t)
          /\ \A j \in JobSet' : JobRef(j) \in Known(t)
      BY <1>1, <2>1, <2>3
    <3> QED
      BY <2>1, <2>2, <3>1, FreshStep
  <2>5. ListInv'
    <3>1. \A h : (Splitting(th[t], h) => Splitting(th'[t], h)) /\ ~Merging(th[t], h)
      BY <2>1 DEF Splitting, Merging, SplitPCs, MergePCs, GoesTo, SameCall
    <3>2. keys' = heads' /\ splitList' \cap heads' \subseteq splitList \cap heads /\ mergeList' \cap heads' \subseteq mergeList \cap heads
      BY <2>1 DEF ListInv
    <3> QED
      BY <2>1, <2>3, <3>1, <3>2, ListStep
  <2> QED
    BY <2>4, <2>5
<1>8. ASSUME Unlist(t) PROVE FreshInv' /\ ListInv'
  <2>1. /\ th[t].pc = "unlist" /\ Moved(t) /\ (GoesTo(th'[t], th[t], "collect") \/ Returns(th'[t], th[t]))
        /\ splitList' = splitList \ {g} /\ UNCHANGED <<heads, keys, nextHead, mergeList, jobs>>
    BY <1>8, UnlistEffect
  <2>2. Names(th'[t], Known(t)) /\ th'[t].pc # "put"
    <3>1. CASE GoesTo(th'[t], th[t], "collect")
      BY <1>1, <2>1, <3>1, GoesNames DEF GoesTo
    <3>2. CASE Returns(th'[t], th[t])
      BY <1>1, <2>1, <3>2, ReturnsNames, IdleFields DEF Returns, ThreadStates
    <3> QED
      BY <2>1, <3>1, <3>2
  <2>3. \A h \in splitList' : ~Splitting(th[t], h)
    BY <2>1 DEF Splitting, Merging, SplitPCs, MergePCs
  <2>4. \A h : ~Merging(th[t], h)
    BY <2>1 DEF Splitting, Merging, SplitPCs, MergePCs
  <2>5. JobSet' = JobSet
    BY <2>1, JobsSame
  <2> QED
    BY <2>1, <2>2, <2>3, <2>4, <2>5, ListJobsStep
<1>9. ASSUME CollectReAssign(t) PROVE FreshInv' /\ ListInv'
  <2>1. /\ th[t].pc = "collect" /\ Moved(t) /\ Returns(th'[t], th[t])
        /\ UNCHANGED <<heads, keys, nextHead, splitList, mergeList>>
    BY <1>9, CollectReAssignEffect
  <2>2. PICK js \in SUBSET Jobs :
                /\ JobSet' = JobSet \cup (IF th[t].same = 0 THEN Range(HeadVectorJobs(g)) ELSE {}) \cup js
                /\ \A j \in js : \E i \in 1..2 : \E e \in th[t].clusters[i] : j = ReassignJob(e, th[t].ids[i])
    BY <1>9, CollectReAssignEffect
  <2>3. g \in HeadIds
    BY <2>1 DEF Types, ThreadOK, PlaceInv, SplitPCs
  <2>4. \A j \in js : JobRef(j) \in Known(t)
    BY <1>1, <2>2, JobRefs DEF Names
  <2>5. \A j \in Range(HeadVectorJobs(g)) : JobRef(j) \in Known(t)
    BY <1>1, <2>3, HeadVectorJobRefs
  <2>6. JobSet \subseteq JobSet' /\ \A j \in JobSet' \ JobSet : JobRef(j) \in Known(t)
    BY <2>2, <2>4, <2>5
  <2>7. Names(th'[t], Known(t)) /\ th'[t].pc # "put"
    BY <1>1, <2>1, ReturnsNames, IdleFields DEF Returns, ThreadStates
  <2>8. \A h : ~Splitting(th[t], h) /\ ~Merging(th[t], h)
    BY <2>1 DEF Splitting, Merging, SplitPCs, MergePCs
  <2> QED
    BY <2>1, <2>6, <2>7, <2>8, ListJobsStep
<1> QED
  BY <1>2, <1>3, <1>4, <1>5, <1>6, <1>7, <1>8, <1>9

LEMMA ListMerge ==
    ASSUME Types, FreshInv, ListInv, NEW t \in Threads,
           \/ MergeBusy(t) \/ MergeStart(t) \/ MergeHeadGone(t) \/ MergeNotNeeded(t) \/ MergeRead(t)
           \/ (\E o \in HeadIds : MergePick(t, o)) \/ MergeOtherGone(t) \/ MergeWith(t) \/ MergeNoNeighbour(t)
           \/ MergeReassign(t)
    PROVE  FreshInv' /\ ListInv'
<1> DEFINE g == th[t].head
<1>1. /\ th[t] \in ThreadStates /\ Names(th[t], Known(t)) /\ NoHead \in Known(t)
      /\ heads \subseteq Known(t) /\ splitList \subseteq Known(t) /\ mergeList \subseteq Known(t)
      /\ \A j \in JobSet : JobRef(j) \in Known(t)
      /\ jobs \in Seq(Jobs)
  BY KnownHas DEF Types
<1>2. Names(Idle, Known(t)) /\ Idle.pc = "idle"
  BY <1>1, IdleNames, IdleFields
<1>3. ASSUME MergeBusy(t) PROVE FreshInv' /\ ListInv'
  <2> DEFINE b == th[t].reassign
  <2>1. /\ th[t].pc = "merge" /\ jobs' = Append(jobs, MergeJob(g, b)) /\ Moved(t) /\ th'[t] = Idle
        /\ UNCHANGED <<heads, keys, nextHead, splitList, mergeList>>
    BY <1>3, MergeBusyEffect
  <2>2. g \in HeadIds /\ b \in BOOLEAN /\ g \in Known(t)
    BY <1>1, <2>1 DEF Types, ThreadOK, PlaceInv, MergePCs, ThreadStates, Names
  <2> HIDE DEF b
  <2>3. MergeJob(g, b) \in Jobs
    BY <2>2 DEF Jobs, MergeJob
  <2>4. JobSet' = JobSet \cup {MergeJob(g, b)} /\ JobRef(MergeJob(g, b)) = g
    BY <1>1, <2>1, <2>3, JobsAppended, JobRefs
  <2>5. MergeJob(g, TRUE) \in JobSet' \/ MergeJob(g, FALSE) \in JobSet'
    BY <2>2, <2>4
  <2>6. \A h : ~Splitting(th[t], h) /\ (Merging(th[t], h) => h = g)
    BY <2>1 DEF Splitting, Merging, SplitPCs, MergePCs
  <2> QED
    BY <1>2, <2>1, <2>2, <2>4, <2>5, <2>6, ListJobsStep
<1>4. ASSUME MergeStart(t) \/ MergeOtherGone(t) PROVE FreshInv' /\ ListInv'
  <2>1. /\ th[t].pc \in {"merge", "mergeother"} /\ Moved(t) /\ UNCHANGED <<heads, keys, nextHead, splitList, mergeList, jobs>>
        /\ (GoesTo(th'[t], th[t], "mergelock") \/ GoesTo(th'[t], th[t], "mergewith"))
    BY <1>4, MergeStartEffect, MergeOtherGoneEffect DEF StillAll
  <2>2. Names(th'[t], Known(t)) /\ th'[t].pc \in {"mergelock", "mergewith"} /\ th'[t].head = g
    BY <1>1, <2>1, GoesNames DEF GoesTo, SameCall
  <2>3. \A h : ~Splitting(th[t], h) /\ (Merging(th[t], h) => Merging(th'[t], h))
    BY <2>1, <2>2 DEF Splitting, Merging, SplitPCs, MergePCs
  <2> QED
    BY <2>1, <2>2, <2>3, ListQuietStep
<1>5. ASSUME MergeHeadGone(t) PROVE FreshInv' /\ ListInv'
  <2>1. /\ th[t].pc = "mergelock" /\ g \notin heads /\ Moved(t) /\ th'[t] = Idle
        /\ UNCHANGED <<heads, keys, nextHead, splitList, mergeList, jobs>>
    BY <1>5, MergeHeadGoneEffect
  <2>2. \A h \in heads : ~Splitting(th[t], h) /\ ~Merging(th[t], h)
    BY <2>1 DEF Splitting, Merging, SplitPCs, MergePCs
  <2> QED
    BY <1>2, <2>1, <2>2, ListQuietStep
<1>6. ASSUME MergeNotNeeded(t) \/ MergeNoNeighbour(t) PROVE FreshInv' /\ ListInv'
  <2>1. /\ th[t].pc \in {"mergelock", "mergewith"} /\ Moved(t) /\ th'[t] = Idle /\ mergeList' = mergeList \ {g}
        /\ UNCHANGED <<heads, keys, nextHead, splitList, jobs>>
    BY <1>6, MergeNotNeededEffect, MergeNoNeighbourEffect
  <2>2. \A h : ~Splitting(th[t], h) /\ (h \in mergeList' => ~Merging(th[t], h))
    BY <2>1 DEF Splitting, Merging, SplitPCs, MergePCs
  <2>3. JobSet' = JobSet
    BY <2>1, JobsSame
  <2> QED
    BY <1>2, <2>1, <2>2, <2>3, ListJobsStep
<1>7. ASSUME MergeRead(t) PROVE FreshInv' /\ ListInv'
  <2>1. /\ th[t].pc = "mergelock" /\ Moved(t) /\ th'[t].pc = "mergewith" /\ th'[t].survivor = th[t].survivor
        /\ th'[t].todo = th[t].todo /\ SameVector(th'[t], th[t]) /\ SameCall(th'[t], th[t]) /\ SameSplit(th'[t], th[t])
        /\ UNCHANGED <<heads, keys, nextHead, splitList, mergeList, jobs>>
    BY <1>7, MergeReadEffect
  <2>2. Names(th'[t], Known(t))
    BY <1>1, <2>1 DEF Names, SameVector, SameCall, SameSplit
  <2>3. \A h : ~Splitting(th[t], h) /\ (Merging(th[t], h) => Merging(th'[t], h))
    BY <2>1 DEF Splitting, Merging, SplitPCs, MergePCs, SameCall
  <2> QED
    BY <2>1, <2>2, <2>3, ListQuietStep
<1>8. ASSUME NEW o \in HeadIds, MergePick(t, o) PROVE FreshInv' /\ ListInv'
  <2>1. /\ th[t].pc = "mergewith" /\ o \in heads /\ Moved(t) /\ th'[t].pc = "mergeother" /\ th'[t].survivor = o
        /\ th'[t].todo = th[t].todo /\ SameVector(th'[t], th[t]) /\ SameCall(th'[t], th[t]) /\ SameSplit(th'[t], th[t])
        /\ UNCHANGED <<heads, keys, nextHead, splitList, mergeList, jobs>>
    BY <1>8, MergePickEffect DEF StillAll
  <2>2. Names(th'[t], Known(t))
    BY <1>1, <2>1 DEF Names, SameVector, SameCall, SameSplit
  <2>3. \A h : ~Splitting(th[t], h) /\ (Merging(th[t], h) => Merging(th'[t], h))
    BY <2>1 DEF Splitting, Merging, SplitPCs, MergePCs, SameCall
  <2> QED
    BY <2>1, <2>2, <2>3, ListQuietStep
<1>9. ASSUME MergeWith(t) PROVE FreshInv' /\ ListInv'
  <2>1. /\ th[t].pc = "mergeother" /\ Moved(t) /\ th'[t].pc = "mergereassign"
        /\ th'[t].todo = th[t].todo /\ SameVector(th'[t], th[t]) /\ SameCall(th'[t], th[t])
        /\ UNCHANGED <<nextHead, splitList, mergeList, jobs>>
    BY <1>9, MergeWithEffect
  <2>2. PICK gone \in HeadIds, kept \in HeadIds :
                /\ gone \in {g, th[t].survivor} /\ kept \in {g, th[t].survivor}
                /\ heads' = heads \ {gone} /\ keys' = keys \ {gone}
                /\ th'[t].survivor = kept /\ th'[t].ids = <<gone, NoHead>>
    BY <1>9, MergeWithEffect
  <2>3. Names(th'[t], Known(t))
    BY <1>1, <2>1, <2>2 DEF Names, SameVector, SameCall
  <2>4. \A h : ~Splitting(th[t], h) /\ (Merging(th[t], h) => Merging(th'[t], h))
    BY <2>1 DEF Splitting, Merging, SplitPCs, MergePCs, SameCall
  <2>5. JobSet' = JobSet
    BY <2>1, JobsSame
  <2>6. FreshInv'
    <3>1. /\ nextHead' = nextHead /\ heads' \subseteq Known(t) /\ splitList' \subseteq Known(t) /\ mergeList' \subseteq Known(t)
          /\ \A j \in JobSet' : JobRef(j) \in Known(t)
      BY <1>1, <2>1, <2>2, <2>5
    <3> QED
      BY <2>1, <2>3, <3>1, FreshStep
  <2>7. ListInv'
    <3>1. keys' = heads' /\ splitList' \cap heads' \subseteq splitList \cap heads /\ mergeList' \cap heads' \subseteq mergeList \cap heads
      BY <2>1, <2>2 DEF ListInv
    <3> QED
      BY <2>1, <2>4, <2>5, <3>1, ListStep
  <2> QED
    BY <2>6, <2>7
<1>10. ASSUME MergeReassign(t) PROVE FreshInv' /\ ListInv'
  <2>1. /\ th[t].pc = "mergereassign" /\ mergeList' = mergeList \ {g} /\ Moved(t) /\ th'[t] = Idle
        /\ JobSet \subseteq JobSet'
        /\ \A j \in JobSet' \ JobSet : \/ \E e \in th[t].current : j = ReassignJob(e, th[t].survivor)
                                       \/ j \in Range(HeadVectorJobs(th[t].ids[1]))
        /\ UNCHANGED <<heads, nextHead, keys, splitList>>
    BY <1>10, MergeReassignEffect
  <2>2. th[t].ids[1] \in HeadIds
    BY <2>1 DEF Types, ThreadOK, PlaceInv
  <2>3. \A j \in Range(HeadVectorJobs(th[t].ids[1])) : JobRef(j) \in Known(t)
    BY <1>1, <2>2, HeadVectorJobRefs
  <2>4. \A e : JobRef(ReassignJob(e, th[t].survivor)) \in Known(t)
    BY <1>1, JobRefs DEF Names
  <2>5. \A j \in JobSet' \ JobSet : JobRef(j) \in Known(t)
    BY <2>1, <2>3, <2>4
  <2>6. \A h : ~Splitting(th[t], h) /\ (h \in mergeList' => ~Merging(th[t], h))
    BY <2>1 DEF Splitting, Merging, SplitPCs, MergePCs
  <2> QED
    BY <1>2, <2>1, <2>5, <2>6, ListJobsStep
<1> QED
  BY <1>3, <1>4, <1>5, <1>6, <1>7, <1>8, <1>9, <1>10

LEMMA ListNext ==
    ASSUME Types, FreshInv, ListInv, [Next]_vars
    PROVE  FreshInv' /\ ListInv'
<1>1. CASE Next
  <2>1. PICK t \in Threads : ClientStep(t) \/ Work(t)
    BY <1>1 DEF Next
  <2> QED
    BY <2>1, ListAppend, ListSplit, ListMerge DEF Work
<1>2. CASE UNCHANGED vars
  <2>1. UNCHANGED <<heads, keys, nextHead, splitList, mergeList, jobs, th>>
    BY <1>2 DEF vars
  <2>2. JobSet' = JobSet
    BY <2>1, JobsSame
  <2>3. Used' = Used /\ \A u \in Threads : Pending(u)' = Pending(u)
    BY <2>1, <2>2 DEF Used, Pending
  <2>4. FreshInv'
    BY <2>1, <2>3 DEF FreshInv
  <2>5. ListInv'
    BY <2>1, <2>2 DEF ListInv, SplitComing, MergeComing
  <2> QED
    BY <2>4, <2>5
<1> QED
  BY <1>1, <1>2

\* Once no thread has a call or a job, the locks are free and no listed head is left.
LEMMA QuietLeavesNothing ==
    ASSUME Types, LockInv, ListInv
    PROVE  NothingLeftBehind
<1> SUFFICES ASSUME Quiet
             PROVE  /\ keys = heads
                    /\ (splitList \cup mergeList) \cap heads = {}
                    /\ mergeLock = None /\ \A i \in DOMAIN lock : lock[i] = None
  BY DEF NothingLeftBehind
<1>1. JobSet = {} /\ \A t \in Threads : th[t].pc = "idle"
  BY DEF Quiet, JobSet
<1>2. \A t \in Threads : ~Locks(th[t])
  BY <1>1 DEF Locks, SplitPCs
<1>3. mergeLock = None /\ \A i \in DOMAIN lock : lock[i] = None
  BY <1>1, <1>2 DEF Types, LockInv
<1>4. \A t \in Threads : \A h : ~Splitting(th[t], h) /\ ~Merging(th[t], h)
  BY <1>1 DEF Splitting, Merging, SplitPCs, MergePCs
<1>5. \A h : ~SplitComing(h) /\ ~MergeComing(h)
  BY <1>1, <1>4 DEF SplitComing, MergeComing
<1> QED
  BY <1>3, <1>5 DEF ListInv

\* The locks of m_rwLocks and m_mergeLock are held by the thread whose place says
\* so; the id of a new head is in no other use until its posting is written; and a
\* head in m_splitList or m_mergeList has a job, in the queue or being done.
THEOREM LocksAndListsHold == Spec => [](Types /\ LockInv /\ FreshInv /\ ListInv)
<1>1. Init => Types /\ LockInv /\ FreshInv /\ ListInv
  BY TypesInit, LockInit, FreshInit
<1>2. Types /\ LockInv /\ FreshInv /\ ListInv /\ [Next]_vars => (Types /\ LockInv /\ FreshInv /\ ListInv)'
  BY TypesNext, LockNext, ListNext
<1> QED
  BY <1>1, <1>2, PTL DEF Spec

\* When AllFinished answers yes, the store has the postings of the heads and no
\* other, every lock is free, and no head is listed for a split or merge that
\* will never come (SplitAsync and MergeAsync do nothing for a listed head).
THEOREM NothingIsLeftBehind == Spec => []NothingLeftBehind
BY LocksAndListsHold, QuietLeavesNothing, PTL

(***************************************************************************)
(* Bounds                                                                  *)
(***************************************************************************)

LEMMA MergeFreeStep ==
    ASSUME MergeFree, NEW t \in Threads, Moved(t), setting' = setting, searches' = searches, mergeList' \subseteq mergeList,
           th'[t].pc \in MergePCs => th[t].pc \in MergePCs \/ \E j \in JobSet : j.kind = "merge",
           \A j \in JobSet' : j.kind = "merge" => j \in JobSet \/ th[t].pc \in MergePCs
    PROVE  MergeFree'
BY DEF MergeFree, NoMerges, Moved

\* A step that adds no job, or one job of another kind.
LEMMA MergeFreeQuietStep ==
    ASSUME MergeFree, NEW t \in Threads, Moved(t), setting' = setting, searches' = searches, mergeList' \subseteq mergeList,
           th'[t].pc \in MergePCs => th[t].pc \in MergePCs,
           \A j \in JobSet' : j.kind = "merge" => j \in JobSet
    PROVE  MergeFree'
BY MergeFreeStep

LEMMA MergeFreeNext ==
    ASSUME Types, MergeFree, NEW t \in Threads, ClientStep(t) \/ Work(t)
    PROVE  MergeFree' /\ setting' = setting
<1> DEFINE g == th[t].head
<1>1. th[t] \in ThreadStates /\ jobs \in Seq(Jobs) /\ Idle.pc = "idle" /\ "idle" \notin MergePCs
  BY IdleFields DEF Types, MergePCs
<1>2. ASSUME NEW v \in Vectors, AddIndex(t, v) \/ DeleteIndex(t, v) PROVE MergeFree' /\ setting' = setting
  <2>1. /\ Moved(t) /\ UNCHANGED <<setting, searches, mergeList, jobs>>
        /\ th' = th \/ th'[t].pc = "next"
    BY <1>2, AddIndexEffect, DeleteIndexEffect DEF Moved, Types
  <2> QED
    BY <2>1, JobsSame, MergeFreeQuietStep DEF MergePCs
<1>3. ASSUME NEW h \in HeadIds, SearchIndex(t, h) PROVE MergeFree' /\ setting' = setting
  <2>1. setting' = setting /\ searches < setting.searches
    BY <1>3, SearchIndexEffect
  <2>2. ~NoMerges
    BY <2>1 DEF MergeFree, NoMerges
  <2> QED
    BY <2>1, <2>2 DEF MergeFree, NoMerges
<1>4. ASSUME ForceGC(t) PROVE MergeFree' /\ setting' = setting
  <2>1. Moved(t) /\ UNCHANGED <<setting, searches, mergeList, jobs>> /\ th'[t].pc = "gc"
    BY <1>4, ForceGCEffect DEF GoesTo
  <2> QED
    BY <2>1, JobsSame, MergeFreeQuietStep DEF MergePCs
<1>5. ASSUME TakeJob(t) PROVE MergeFree' /\ setting' = setting
  <2>1. /\ Moved(t) /\ UNCHANGED <<setting, searches, mergeList>> /\ jobs # <<>> /\ jobs' = Tail(jobs)
        /\ th'[t].pc \in MergePCs => Head(jobs).kind = "merge"
    BY <1>5, TakeJobEffect DEF MergePCs
  <2>2. Head(jobs) \in JobSet /\ JobSet' \subseteq JobSet
    BY <1>1, <2>1, HeadOfJobs, JobTaken
  <2> QED
    BY <2>1, <2>2, MergeFreeStep
<1>6. ASSUME HeadMiss(t) \/ CheckSize(t) PROVE MergeFree' /\ setting' = setting
  <2>1. /\ Moved(t) /\ UNCHANGED <<setting, searches, mergeList>> /\ th'[t].pc \in {"next", "split"}
        /\ th[t].pc \in {"append", "sized"}
        /\ \/ jobs' = jobs
           \/ jobs' = Append(jobs, ReassignJob(<<th[t].vid, th[t].ver>>, g)) /\ th[t].pc = "append"
           \/ jobs' = Append(jobs, SplitJob(g)) /\ th[t].pc = "sized"
    BY <1>6, HeadMissEffect, CheckSizeEffect DEF GoesTo, CallsSplit
  <2>2. th[t].ver \in Nat /\ g \in HeadIds /\ th[t].vid \in Vectors
    BY <1>1, <2>1 DEF Types, ThreadOK, PlaceInv, Moves, MovePCs, ThreadStates
  <2>3. \A j \in JobSet' : j.kind = "merge" => j \in JobSet
    <3>1. CASE jobs' = jobs
      BY <3>1, JobsSame
    <3>2. CASE jobs' = Append(jobs, ReassignJob(<<th[t].vid, th[t].ver>>, g))
      <4> DEFINE j == ReassignJob(<<th[t].vid, th[t].ver>>, g)
      <4>1. j \in Jobs /\ j.kind = "reassign"
        BY <2>2 DEF Jobs, ReassignJob, Entries, HeadRefs
      <4> HIDE DEF j
      <4> QED
        BY <1>1, <3>2, <4>1, JobsAppended DEF j
    <3>3. CASE jobs' = Append(jobs, SplitJob(g))
      <4>1. SplitJob(g) \in Jobs /\ SplitJob(g).kind = "split"
        BY <2>2 DEF Jobs, SplitJob
      <4> QED
        BY <1>1, <3>3, <4>1, JobsAppended
    <3> QED
      BY <2>1, <3>1, <3>2, <3>3
  <2> QED
    BY <2>1, <2>3, MergeFreeQuietStep DEF MergePCs
<1>7. ASSUME CollectNext(t) \/ NextSelection(t) \/ AppendPosting(t) \/ SelectHeads(t) \/ RecheckVersion(t) \/ Increment(t)
      PROVE  MergeFree' /\ setting' = setting
  <2>1. Moved(t) /\ UNCHANGED <<setting, searches, mergeList, jobs>> /\ th'[t].pc \notin MergePCs
    <3>1. CASE CollectNext(t)
      BY <1>1, <3>1, CollectNextEffect DEF MergePCs
    <3>2. CASE NextSelection(t)
      BY <1>1, <3>2, NextSelectionEffect DEF MergePCs, StillAll
    <3>3. CASE AppendPosting(t)
      BY <1>1, <3>3, AppendPostingEffect DEF MergePCs, CallsSplit, GoesTo
    <3>4. CASE SelectHeads(t)
      BY <1>1, <3>4, SelectHeadsEffect DEF MergePCs, StillAll
    <3>5. CASE RecheckVersion(t)
      BY <1>1, <3>5, RecheckVersionEffect DEF MergePCs, StillAll, GoesTo
    <3>6. CASE Increment(t)
      BY <1>1, <3>6, IncrementEffect DEF MergePCs, GoesTo
    <3> QED
      BY <1>7, <3>1, <3>2, <3>3, <3>4, <3>5, <3>6
  <2> QED
    BY <2>1, JobsSame, MergeFreeQuietStep
<1>8. ASSUME \/ SplitHeadGone(t) \/ SplitCollect(t) \/ SplitOneCluster(t) \/ SplitTwoClusters(t)
             \/ KeepHead(t) \/ NewHead(t) \/ PutNewPosting(t) \/ Unlink(t) \/ Unlist(t)
      PROVE  MergeFree' /\ setting' = setting
  <2>1. /\ Moved(t) /\ UNCHANGED <<setting, searches, mergeList, jobs>>
        /\ th'[t].pc \in {"newhead", "put", "unlink", "unlist", "collect"} \/ Returns(th'[t], th[t])
    <3>1. CASE SplitHeadGone(t) \/ SplitCollect(t) \/ SplitOneCluster(t)
      BY <3>1, SplitHeadGoneEffect, SplitKeepsEffect
    <3>2. CASE SplitTwoClusters(t)
      BY <3>2, SplitTwoClustersEffect
    <3>3. CASE KeepHead(t)
      BY <3>3, KeepHeadEffect DEF Advances
    <3>4. CASE NewHead(t)
      BY <3>4, NewHeadEffect
    <3>5. CASE PutNewPosting(t)
      BY <3>5, PutNewPostingEffect DEF Advances
    <3>6. CASE Unlink(t)
      BY <3>6, UnlinkEffect DEF GoesTo
    <3>7. CASE Unlist(t)
      BY <3>7, UnlistEffect DEF GoesTo
    <3> QED
      BY <1>8, <3>1, <3>2, <3>3, <3>4, <3>5, <3>6, <3>7
  <2>2. th'[t].pc \notin MergePCs
    BY <1>1, <2>1 DEF Returns, MergePCs, ThreadStates
  <2> QED
    BY <2>1, <2>2, JobsSame, MergeFreeQuietStep
<1>9. ASSUME CollectReAssign(t) PROVE MergeFree' /\ setting' = setting
  <2>1. /\ th[t].pc = "collect" /\ Moved(t) /\ UNCHANGED <<setting, searches, mergeList>> /\ Returns(th'[t], th[t])
    BY <1>9, CollectReAssignEffect
  <2>2. PICK js \in SUBSET Jobs :
                /\ JobSet' = JobSet \cup (IF th[t].same = 0 THEN Range(HeadVectorJobs(g)) ELSE {}) \cup js
                /\ \A j \in js : \E i \in 1..2 : \E e \in th[t].clusters[i] : j = ReassignJob(e, th[t].ids[i])
    BY <1>9, CollectReAssignEffect
  <2>3. g \in HeadIds
    BY <2>1 DEF Types, ThreadOK, PlaceInv, SplitPCs
  <2>4. \A j \in JobSet' : j.kind = "merge" => j \in JobSet
    BY <2>2, <2>3, JobRefs, HeadVectorJobRefs
  <2>5. th'[t].pc \notin MergePCs
    BY <1>1, <2>1 DEF Returns, MergePCs, ThreadStates
  <2> QED
    BY <2>1, <2>4, <2>5, MergeFreeQuietStep
<1>10. ASSUME \/ MergeBusy(t) \/ MergeStart(t) \/ MergeHeadGone(t) \/ MergeNotNeeded(t) \/ MergeRead(t)
              \/ (\E o \in HeadIds : MergePick(t, o)) \/ MergeOtherGone(t) \/ MergeWith(t) \/ MergeNoNeighbour(t)
              \/ MergeReassign(t)
       PROVE  MergeFree' /\ setting' = setting
  <2>1. th[t].pc \in MergePCs
    BY <1>10 DEF MergePCs, MergeBusy, MergeStart, MergeHeadGone, MergeNotNeeded, MergeRead, MergePick, MergeOtherGone, MergeWith,
           MergeNoNeighbour, MergeReassign
  <2>2. setting' = setting
    BY <1>10 DEF MergeBusy, MergeStart, MergeHeadGone, MergeNotNeeded, MergeRead, MergePick, MergeOtherGone, MergeWith,
           MergeNoNeighbour, MergeReassign, budgets
  <2> QED
    BY <2>1, <2>2 DEF MergeFree, NoMerges
<1> QED
  BY <1>2, <1>3, <1>4, <1>5, <1>6, <1>7, <1>8, <1>9, <1>10 DEF ClientStep, Work

\* Where a step may write: the posting of a head whose lock is free or held by the
\* thread, and the posting of the id that the thread has taken.
MayWrite(t, h) == Free(h) \/ Held(t, h) \/ (th[t].pc = "put" /\ h = Pending(t))

LEMMA StepWrites ==
    ASSUME Types, LockInv, NEW t \in Threads, ClientStep(t) \/ Work(t), NEW h \in HeadIds, posting'[h] # posting[h]
    PROVE  MayWrite(t, h)
<1> DEFINE g == th[t].head
<1>1. posting \in [HeadIds -> SUBSET Entries] /\ th[t] \in ThreadStates /\ ThreadOK(th[t], version)
  BY DEF Types
<1>2. g \in HeadIds /\ Locks(th[t]) => Held(t, g)
  BY HashRange DEF LockInv, Held
<1>3. CASE AppendPosting(t)
  BY <1>1, <1>3, AppendPostingEffect DEF MayWrite
<1>4. CASE SplitCollect(t) \/ SplitOneCluster(t)
  BY <1>1, <1>4, SplitKeepsEffect DEF MayWrite, CanLock
<1>5. CASE KeepHead(t) \/ Unlink(t) \/ MergeNoNeighbour(t)
  <2>1. th[t].pc \in {"newhead", "unlink", "mergewith"} /\ (h # g => posting'[h] = posting[h])
    BY <1>1, <1>5, KeepHeadEffect, UnlinkEffect, MergeNoNeighbourEffect
  <2>2. g \in HeadIds /\ Locks(th[t])
    BY <1>1, <2>1 DEF ThreadOK, PlaceInv, SplitPCs, MergePCs, Locks
  <2> QED
    BY <1>2, <2>1, <2>2 DEF MayWrite
<1>6. CASE PutNewPosting(t)
  BY <1>1, <1>6, PutNewPostingEffect DEF MayWrite, Pending
<1>7. CASE MergeNotNeeded(t)
  BY <1>1, <1>7, MergeNotNeededEffect DEF MayWrite
<1>8. CASE MergeWith(t)
  <2>1. th[t].pc = "mergeother" /\ CanLockOther(t) /\ (h \notin {g, th[t].survivor} => posting'[h] = posting[h])
    BY <1>1, <1>8, MergeWithEffect
  <2>2. g \in HeadIds /\ Locks(th[t])
    BY <1>1, <2>1 DEF ThreadOK, PlaceInv, SplitPCs, MergePCs, Locks
  <2> QED
    BY <1>2, <2>1, <2>2 DEF MayWrite, CanLockOther, Held
<1>9. CASE posting' = posting
  BY <1>9
<1>10. ClientStep(t) => posting' = posting
  BY DEF ClientStep, AddIndex, DeleteIndex, SearchIndex, ForceGC, store
<1>11. TakeJob(t) \/ CollectNext(t) \/ NextSelection(t) \/ HeadMiss(t) \/ CheckSize(t)
       \/ SelectHeads(t) \/ RecheckVersion(t) \/ Increment(t) => posting' = posting
  BY DEF TakeJob, CollectNext, NextSelection, HeadMiss, CheckSize, SelectHeads, RecheckVersion, Increment, store
<1>12. SplitHeadGone(t) \/ SplitTwoClusters(t) \/ NewHead(t) \/ Unlist(t) \/ CollectReAssign(t) => posting' = posting
  BY DEF SplitHeadGone, SplitTwoClusters, NewHead, Unlist, CollectReAssign, store
<1>13. MergeBusy(t) \/ MergeStart(t) \/ MergeHeadGone(t) \/ MergeRead(t)
       \/ (\E o \in HeadIds : MergePick(t, o)) \/ MergeOtherGone(t) \/ MergeReassign(t) => posting' = posting
  BY DEF MergeBusy, MergeStart, MergeHeadGone, MergeRead, MergePick, MergeOtherGone, MergeReassign, store
<1> QED
  BY <1>3, <1>4, <1>5, <1>6, <1>7, <1>8, <1>9, <1>10, <1>11, <1>12, <1>13 DEF Work

\* The posting of a head that another thread has locked stays as it is.
LEMMA LockedStays ==
    ASSUME Types, LockInv, FreshInv, NEW t \in Threads, ClientStep(t) \/ Work(t),
           NEW u \in Threads, u # t, Locks(th[u]), th[u].head \in HeadIds
    PROVE  posting'[th[u].head] = posting[th[u].head]
<1> DEFINE h == th[u].head
<1>1. lock[Hash(h)] = u /\ u # None /\ u # t
  BY HashRange, ThreadAssumption DEF LockInv
<1>2. ~Free(h) /\ ~Held(t, h)
  BY <1>1 DEF Free, Held
<1>3. ~(th[t].pc = "put" /\ h = Pending(t))
  <2>1. th[u].pc # "gc"
    BY DEF Locks, SplitPCs
  <2>2. h \in Used
    BY <2>1 DEF Used, Refers
  <2> QED
    BY <2>2 DEF FreshInv
<1> QED
  BY <1>2, <1>3, StepWrites DEF MayWrite

LEMMA BoundsAre ==
    ASSUME setting \in Settings
    PROVE  /\ Limit \in Nat /\ Buffer \in Nat /\ MergeThreshold \in Nat /\ Bound \in Nat
           /\ 0 <= Bound /\ Limit + Buffer <= Bound /\ Limit <= Limit + Buffer
           /\ ~NoMerges => Bound = MergeThreshold + (Limit + Buffer)
<1>1. setting \in Setting
  BY SettingsAssumption
<1>2. Limit \in Nat /\ Buffer \in Nat /\ MergeThreshold \in Nat
  BY <1>1 DEF Setting, Limit, Buffer, MergeThreshold
<1>3. CASE NoMerges
  BY <1>2, <1>3 DEF Bound
<1>4. CASE ~NoMerges
  BY <1>2, <1>4 DEF Bound
<1> QED
  BY <1>2, <1>3, <1>4

LEMMA Shorter ==
    ASSUME NEW S, IsFiniteSet(S), NEW T \in SUBSET S
    PROVE  IsFiniteSet(T) /\ Cardinality(T) \in Nat /\ Cardinality(S) \in Nat /\ Cardinality(T) <= Cardinality(S)
BY FS_Subset, FS_CardinalityType

\* What a step may do to a posting: take from it, write one of a length that
\* Append allows, or a longer one that no merge has chosen.
GoodWrite(t, h) ==
    \/ posting'[h] \subseteq posting[h]
    \/ Cardinality(posting'[h]) <= Limit + Buffer
    \/ Cardinality(posting'[h]) <= Bound /\ \A u \in Threads : u # t /\ th[u].pc = "mergeother" => th[u].survivor # h

LEMMA BoundStep ==
    ASSUME Types, LockInv, FreshInv, BoundInv, NEW t \in Threads, ClientStep(t) \/ Work(t), Moved(t),
           \A h \in HeadIds : GoodWrite(t, h), \A h \in HeadIds : IsFiniteSet(posting'[h]),
           Fine(th'[t], posting')
    PROVE  BoundInv'
<1>1. MergeFree' /\ setting' = setting
  BY MergeFreeNext DEF BoundInv
<1>2. /\ Bound' = Bound /\ Limit' = Limit /\ Buffer' = Buffer /\ MergeThreshold' = MergeThreshold
  BY <1>1 DEF Bound, NoMerges, Limit, Buffer, MergeThreshold
<1>3. /\ Limit \in Nat /\ Buffer \in Nat /\ Bound \in Nat /\ Limit + Buffer <= Bound
  BY BoundsAre DEF Types
<1>4. \A h \in HeadIds : IsFiniteSet(posting[h])
  BY DEF Types, Added
<1>5. ASSUME NEW h \in HeadIds, posting'[h] \subseteq posting[h]
      PROVE  Cardinality(posting'[h]) <= Cardinality(posting[h]) /\ Cardinality(posting'[h]) \in Nat /\ Cardinality(posting[h]) \in Nat
  BY <1>4, <1>5, Shorter
<1>6. ASSUME NEW h \in HeadIds
      PROVE  Cardinality(posting'[h]) <= Bound
  <2>1. Cardinality(posting'[h]) \in Nat /\ Cardinality(posting[h]) <= Bound
    BY FS_CardinalityType DEF BoundInv
  <2> QED
    BY <1>3, <1>5, <2>1 DEF GoodWrite
<1>7. ASSUME NEW u \in Threads
      PROVE  Fine(th'[u], posting')
  <2>1. CASE u # t
    <3>1. th'[u] = th[u] /\ Fine(th[u], posting) /\ th[u] \in ThreadStates /\ ThreadOK(th[u], version)
      BY <2>1 DEF Moved, BoundInv, Types
    <3>2. ASSUME th[u].pc = "mergeother" PROVE Cardinality(posting'[th[u].survivor]) <= Limit + Buffer
      <4> DEFINE o == th[u].survivor
      <4>1. o \in HeadIds /\ Cardinality(posting[o]) <= Limit + Buffer
        BY <3>1, <3>2 DEF ThreadOK, PlaceInv, Fine
      <4>2. CASE posting'[o] \subseteq posting[o]
        BY <1>3, <1>5, <4>1, <4>2
      <4>3. CASE ~(posting'[o] \subseteq posting[o])
        BY <2>1, <3>2, <4>1, <4>3 DEF GoodWrite
      <4> QED
        BY <4>2, <4>3
    <3>3. ASSUME th[u].pc \in {"newhead", "put"} PROVE posting'[th[u].head] = posting[th[u].head]
      <4>1. Locks(th[u]) /\ th[u].head \in HeadIds
        BY <3>1, <3>3 DEF Locks, ThreadOK, PlaceInv, SplitPCs
      <4> QED
        BY <2>1, <4>1, LockedStays
    <3> QED
      BY <3>1, <3>2, <3>3 DEF Fine
  <2> QED
    BY <2>1
<1> QED
  BY <1>1, <1>2, <1>6, <1>7 DEF BoundInv, Fine

\* A thread that is not in the middle of a split or a merge.
Plain(q, r) ==
    /\ q.pc \notin {"newhead", "put", "mergewith", "mergeother"}
    /\ q.clusters = r.clusters \/ q.clusters = <<{}, {}>>

LEMMA PlainIsFine ==
    ASSUME setting \in Settings, NEW r, NEW p, NEW q, NEW p1, Fine(r, p), Plain(q, r)
    PROVE  Fine(q, p1)
<1>1. Cardinality({}) <= Bound
  BY BoundsAre, FS_EmptySet
<1>2. CASE q.clusters = <<{}, {}>>
  <2>1. q.clusters[1] = {} /\ q.clusters[2] = {}
    BY <1>2
  <2> QED
    BY <1>1, <2>1 DEF Fine, Plain
<1>3. CASE q.clusters = r.clusters
  BY <1>3 DEF Fine, Plain
<1> QED
  BY <1>2, <1>3 DEF Plain

\* A step that writes no posting.
LEMMA BoundQuietStep ==
    ASSUME Types, LockInv, FreshInv, BoundInv, NEW t \in Threads, ClientStep(t) \/ Work(t), Moved(t),
           posting' = posting, Fine(th'[t], posting)
    PROVE  BoundInv'
<1>1. \A h \in HeadIds : GoodWrite(t, h) /\ IsFiniteSet(posting'[h])
  BY DEF GoodWrite, Types, Added
<1>2. Fine(th'[t], posting')
  OBVIOUS
<1> QED
  BY <1>1, <1>2, BoundStep

LEMMA BoundPlainStep ==
    ASSUME Types, LockInv, FreshInv, BoundInv, NEW t \in Threads, ClientStep(t) \/ Work(t), Moved(t),
           posting' = posting, Plain(th'[t], th[t])
    PROVE  BoundInv'
<1>1. Fine(th[t], posting) /\ setting \in Settings
  BY DEF BoundInv, Types
<1>2. Fine(th'[t], posting)
  BY <1>1, PlainIsFine
<1> QED
  BY <1>2, BoundQuietStep

\* A step that writes the posting of one head.
LEMMA BoundWriteStep ==
    ASSUME Types, LockInv, FreshInv, BoundInv, NEW t \in Threads, ClientStep(t) \/ Work(t), Moved(t),
           NEW h \in HeadIds, NEW es, posting' = [posting EXCEPT ![h] = es], IsFiniteSet(es),
           GoodWrite(t, h), Fine(th'[t], posting')
    PROVE  BoundInv'
<1>1. posting \in [HeadIds -> SUBSET Entries] /\ \A i \in HeadIds : IsFiniteSet(posting[i])
  BY DEF Types, Added
<1>2. \A i \in HeadIds : i # h => posting'[i] = posting[i]
  BY <1>1
<1>3. \A i \in HeadIds : GoodWrite(t, i) /\ IsFiniteSet(posting'[i])
  BY <1>1, <1>2 DEF GoodWrite
<1> QED
  BY <1>3, BoundStep

LEMMA BoundInit == Init => BoundInv
<1> SUFFICES ASSUME Init PROVE BoundInv
  OBVIOUS
<1>1. \A t \in Threads : th[t] = Idle
  BY DEF Init
<1>2. setting \in Settings /\ setting \in Setting /\ \A h \in 0..1 : Cardinality(setting.posting[h]) <= setting.limit
  BY SettingsAssumption DEF Init
<1>3. JobSet = {}
  BY DEF Init, JobSet
<1>4. MergeFree
  BY <1>1, <1>3, IdleFields DEF MergeFree, Init, MergePCs
<1>5. ASSUME NEW h \in HeadIds PROVE Cardinality(posting[h]) <= Bound
  <2>1. 0 <= Bound /\ Limit <= Bound /\ Limit \in Nat /\ Buffer \in Nat /\ Bound \in Nat
    BY <1>2, BoundsAre
  <2>2. CASE h \in 0..1
    <3>1. posting[h] = setting.posting[h] \X {0}
      BY <2>2 DEF Init
    <3>2. IsFiniteSet(setting.posting[h])
      <4>1. setting.posting[h] \in SUBSET Vectors
        BY <1>2, <2>2 DEF Setting
      <4> QED
        BY <4>1, BoundAssumption, FS_Subset
    <3>3. IsFiniteSet({0}) /\ Cardinality({0}) = 1
      BY FS_Singleton
    <3>4. Cardinality(setting.posting[h] \X {0}) = Cardinality(setting.posting[h]) * 1
      BY <3>2, <3>3, FS_Product
    <3>5. Cardinality(setting.posting[h]) \in Nat /\ Cardinality(setting.posting[h]) <= Limit
      BY <1>2, <2>2, <3>2, FS_CardinalityType DEF Limit
    <3> QED
      BY <2>1, <3>1, <3>4, <3>5
  <2>3. CASE h \notin 0..1
    <3>1. posting[h] = {}
      BY <2>3 DEF Init
    <3> QED
      BY <2>1, <3>1, FS_EmptySet
  <2> QED
    BY <2>2, <2>3
<1>6. Fine(Idle, posting)
  <2>1. Cardinality({}) <= Bound
    BY <1>2, BoundsAre, FS_EmptySet
  <2> QED
    BY <2>1, IdleFields DEF Fine
<1> QED
  BY <1>1, <1>4, <1>5, <1>6 DEF BoundInv

LEMMA BoundAppend ==
    ASSUME Types, LockInv, FreshInv, BoundInv, NEW t \in Threads,
           ClientStep(t) \/ TakeJob(t) \/ CollectNext(t)
           \/ NextSelection(t) \/ HeadMiss(t) \/ AppendPosting(t) \/ CheckSize(t)
           \/ SelectHeads(t) \/ RecheckVersion(t) \/ Increment(t)
    PROVE  BoundInv'
<1> DEFINE h == th[t].head
<1>1. ClientStep(t) \/ Work(t)
  BY DEF Work
<1>2. Idle.pc = "idle" /\ Idle.clusters = <<{}, {}>>
  BY IdleFields
<1>3. CASE AppendPosting(t)
  <2> DEFINE es == posting[h] \cup {<<th[t].vid, th[t].ver>>}
  <2>1. /\ h \in heads /\ Moved(t) /\ Plain(th'[t], th[t])
        /\ posting' = posting \/ (posting' = [posting EXCEPT ![h] = es] /\ ~(Size(h) + 1 > Limit + Buffer))
    BY <1>3, AppendPostingEffect DEF Plain, CallsSplit, GoesTo, SameSplit
  <2>2. CASE posting' = posting
    BY <1>1, <2>1, <2>2, BoundPlainStep
  <2>3. CASE posting' = [posting EXCEPT ![h] = es] /\ ~(Size(h) + 1 > Limit + Buffer)
    <3>1. /\ h \in HeadIds /\ IsFiniteSet(posting[h]) /\ Limit \in Nat /\ Buffer \in Nat
          /\ setting \in Settings /\ posting \in [HeadIds -> SUBSET Entries]
      BY <2>1, BoundsAre DEF Types, Added
    <3>2. IsFiniteSet(es) /\ Cardinality(es) <= Cardinality(posting[h]) + 1 /\ Cardinality(es) \in Nat
      <4> DEFINE S == posting[h]
                 e == <<th[t].vid, th[t].ver>>
      <4>1. IsFiniteSet(S) /\ Cardinality(S) \in Nat
        BY <3>1, FS_CardinalityType
      <4> HIDE DEF S, e
      <4>2. IsFiniteSet(S \cup {e}) /\ Cardinality(S \cup {e}) = IF e \in S THEN Cardinality(S) ELSE Cardinality(S) + 1
        BY <4>1, FS_AddElement
      <4>3. IsFiniteSet(S \cup {e}) /\ Cardinality(S \cup {e}) <= Cardinality(S) + 1 /\ Cardinality(S \cup {e}) \in Nat
        BY <4>1, <4>2
      <4> QED
        BY <4>3 DEF S, e
    <3>3. Cardinality(posting[h]) \in Nat /\ Cardinality(posting[h]) + 1 <= Limit + Buffer
      BY <2>3, <3>1, FS_CardinalityType DEF Size
    <3>4. posting'[h] = es
      BY <2>3, <3>1
    <3>5. GoodWrite(t, h)
      BY <3>1, <3>2, <3>3, <3>4 DEF GoodWrite
    <3>6. Fine(th'[t], posting')
      BY <2>1, <3>1, PlainIsFine DEF BoundInv
    <3> HIDE DEF es
    <3> QED
      BY <1>1, <2>1, <2>3, <3>1, <3>2, <3>5, <3>6, BoundWriteStep
  <2> QED
    BY <2>1, <2>2, <2>3
<1>4. CASE ~AppendPosting(t)
  <2>1. Moved(t) /\ posting' = posting /\ Plain(th'[t], th[t])
    <3>1. ASSUME NEW v \in Vectors, AddIndex(t, v) PROVE Moved(t) /\ posting' = posting /\ Plain(th'[t], th[t])
      BY <1>2, <3>1, AddIndexEffect DEF Plain, SameSplit
    <3>2. ASSUME NEW v \in Vectors, DeleteIndex(t, v) PROVE Moved(t) /\ posting' = posting /\ Plain(th'[t], th[t])
      BY <3>2, DeleteIndexEffect DEF Plain, Moved, Types, DeleteIndex
    <3>3. ASSUME NEW g \in HeadIds, SearchIndex(t, g) PROVE Moved(t) /\ posting' = posting /\ Plain(th'[t], th[t])
      BY <3>3, SearchIndexEffect DEF Plain, Moved, Types, SearchIndex
    <3>4. CASE ForceGC(t)
      BY <1>2, <3>4, ForceGCEffect DEF Plain, GoesTo, SameSplit
    <3>5. CASE TakeJob(t)
      BY <1>2, <3>5, TakeJobEffect DEF Plain, SameSplit
    <3>6. CASE CollectNext(t)
      BY <1>2, <3>6, CollectNextEffect DEF Plain, SameSplit
    <3>7. CASE NextSelection(t)
      BY <1>2, <3>7, NextSelectionEffect DEF Plain, SameSplit, StillAll
    <3>8. CASE HeadMiss(t)
      BY <3>8, HeadMissEffect DEF Plain, GoesTo, SameSplit
    <3>9. CASE CheckSize(t)
      BY <3>9, CheckSizeEffect DEF Plain, GoesTo, CallsSplit, SameSplit
    <3>10. CASE SelectHeads(t)
      BY <1>2, <3>10, SelectHeadsEffect DEF Plain, SameSplit, StillAll
    <3>11. CASE RecheckVersion(t)
      BY <1>2, <3>11, RecheckVersionEffect DEF Plain, GoesTo, SameSplit, StillAll
    <3>12. CASE Increment(t)
      BY <3>12, IncrementEffect DEF Plain, GoesTo, SameSplit
    <3> QED
      BY <1>4, <3>1, <3>2, <3>3, <3>4, <3>5, <3>6, <3>7, <3>8, <3>9, <3>10, <3>11, <3>12 DEF ClientStep
  <2> QED
    BY <1>1, <2>1, BoundPlainStep
<1> QED
  BY <1>3, <1>4

LEMMA BoundSplit ==
    ASSUME Types, LockInv, FreshInv, BoundInv, NEW t \in Threads,
           \/ SplitHeadGone(t) \/ SplitCollect(t) \/ SplitOneCluster(t) \/ SplitTwoClusters(t)
           \/ KeepHead(t) \/ NewHead(t) \/ PutNewPosting(t) \/ Unlink(t) \/ Unlist(t) \/ CollectReAssign(t)
    PROVE  BoundInv'
<1> DEFINE h == th[t].head
           k == th[t].k
<1>1. ClientStep(t) \/ Work(t)
  BY DEF Work
<1>2. Idle.pc = "idle" /\ Idle.clusters = <<{}, {}>>
  BY IdleFields
<1>3. /\ th[t] \in ThreadStates /\ ThreadOK(th[t], version) /\ Fine(th[t], posting) /\ setting \in Settings
      /\ posting \in [HeadIds -> SUBSET Entries] /\ \A i \in HeadIds : IsFiniteSet(posting[i])
  BY DEF Types, Added, BoundInv
<1>4. k \in 1..2 /\ th[t].clusters \in [1..2 -> SUBSET Entries] /\ IsFiniteSet(th[t].clusters[1]) /\ IsFiniteSet(th[t].clusters[2])
  BY <1>3 DEF ThreadStates, ThreadOK, Added
<1>5. ASSUME NEW i \in HeadIds, NEW L \in SUBSET posting[i]
      PROVE  IsFiniteSet(L) /\ Cardinality(L) <= Bound
  <2>1. IsFiniteSet(L) /\ Cardinality(L) \in Nat /\ Cardinality(posting[i]) \in Nat /\ Cardinality(L) <= Cardinality(posting[i])
    BY <1>3, Shorter
  <2>2. Cardinality(posting[i]) <= Bound /\ Bound \in Nat
    BY <1>3, BoundsAre DEF BoundInv
  <2> QED
    BY <2>1, <2>2
<1>6. CASE SplitHeadGone(t) \/ Unlist(t) \/ CollectReAssign(t)
  <2>1. Moved(t) /\ posting' = posting /\ Plain(th'[t], th[t])
    <3>1. Moved(t) /\ posting' = posting /\ (GoesTo(th'[t], th[t], "collect") \/ Returns(th'[t], th[t]))
      BY <1>6, SplitHeadGoneEffect, UnlistEffect, CollectReAssignEffect
    <3> QED
      BY <1>2, <1>3, <3>1 DEF Plain, GoesTo, Returns, SameSplit, ThreadStates
  <2> QED
    BY <1>1, <2>1, BoundPlainStep
<1>7. CASE SplitCollect(t) \/ SplitOneCluster(t)
  <2>1. th[t].pc = "split" /\ h \in heads /\ Moved(t) /\ Returns(th'[t], th[t])
    BY <1>7, SplitKeepsEffect
  <2>2. PICK L \in SUBSET Live(h) : posting' = [posting EXCEPT ![h] = L]
    BY <1>7, SplitKeepsEffect
  <2>3. h \in HeadIds /\ L \in SUBSET posting[h]
    BY <2>1, <2>2 DEF Types, Live
  <2>4. GoodWrite(t, h) /\ IsFiniteSet(L)
    BY <1>3, <1>5, <2>2, <2>3 DEF GoodWrite
  <2>5. Plain(th'[t], th[t])
    BY <1>2, <1>3, <2>1 DEF Plain, Returns, SameSplit, ThreadStates
  <2>6. Fine(th'[t], posting')
    BY <1>3, <2>5, PlainIsFine
  <2> QED
    BY <1>1, <2>1, <2>2, <2>3, <2>4, <2>6, BoundWriteStep
<1>8. CASE SplitTwoClusters(t)
  <2>1. /\ h \in heads /\ Moved(t) /\ posting' = posting /\ th'[t].pc = "newhead" /\ th'[t].head = h /\ th'[t].k = 1
        /\ th'[t].same \in 0..2 /\ th'[t].clusters[1] \in SUBSET Live(h) /\ th'[t].clusters[2] = Live(h) \ th'[t].clusters[1]
    BY <1>8, SplitTwoClustersEffect DEF SameCall
  <2>2. h \in HeadIds /\ th'[t].clusters[1] \in SUBSET posting[h] /\ th'[t].clusters[2] \in SUBSET posting[h]
    BY <2>1 DEF Types, Live
  <2>3. Cardinality(th'[t].clusters[1]) <= Bound /\ Cardinality(th'[t].clusters[2]) <= Bound
    BY <1>5, <2>2
  <2>4. Fine(th'[t], posting)
    BY <2>1, <2>2, <2>3 DEF Fine
  <2> QED
    BY <1>1, <2>1, <2>4, BoundQuietStep
<1>9. CASE KeepHead(t)
  <2>1. /\ th[t].pc = "newhead" /\ th[t].same = k /\ posting' = [posting EXCEPT ![h] = th[t].clusters[k]] /\ Moved(t)
        /\ th'[t].pc = IF k = 2 THEN "unlink" ELSE "newhead"
        /\ th'[t].k = 2 /\ th'[t].same = th[t].same /\ th'[t].clusters = th[t].clusters
    BY <1>9, KeepHeadEffect DEF Advances
  <2>2. h \in HeadIds
    BY <1>3, <2>1 DEF ThreadOK, PlaceInv, SplitPCs
  <2>3. th[t].clusters[k] \in SUBSET posting[h] /\ IsFiniteSet(th[t].clusters[k])
    BY <1>3, <1>4, <2>1 DEF Fine
  <2>4. GoodWrite(t, h)
    BY <1>3, <2>1, <2>2, <2>3 DEF GoodWrite
  <2>5. Fine(th'[t], posting')
    BY <1>3, <1>4, <2>1 DEF Fine
  <2> QED
    BY <1>1, <2>1, <2>2, <2>3, <2>4, <2>5, BoundWriteStep
<1>10. CASE NewHead(t)
  <2>1. /\ th[t].pc = "newhead" /\ posting' = posting /\ Moved(t) /\ th'[t].pc = "put" /\ th'[t].head = h
        /\ th'[t].k = th[t].k /\ th'[t].same = th[t].same /\ th'[t].clusters = th[t].clusters
    BY <1>10, NewHeadEffect DEF SameCall
  <2>2. Fine(th'[t], posting)
    BY <1>3, <2>1 DEF Fine
  <2> QED
    BY <1>1, <2>1, <2>2, BoundQuietStep
<1>11. CASE PutNewPosting(t)
  <2> DEFINE n == th[t].ids[th[t].k]
  <2>1. /\ th[t].pc = "put" /\ n \in HeadIds /\ posting' = [posting EXCEPT ![n] = th[t].clusters[k]] /\ Moved(t)
        /\ th'[t].pc = IF k = 2 THEN "unlink" ELSE "newhead"
        /\ th'[t].k = 2 /\ th'[t].same = th[t].same /\ th'[t].clusters = th[t].clusters /\ th'[t].head = h
    BY <1>11, PutNewPostingEffect DEF Advances, SameCall
  <2>2. n \notin Used /\ h \in HeadIds
    BY <1>3, <2>1 DEF FreshInv, Pending, ThreadOK, PlaceInv, SplitPCs
  <2>3. h # n /\ \A u \in Threads : th[u].survivor # n
    <3>1. \A u \in Threads : Refers(th[u]) \subseteq Used
      BY DEF Used
    <3>2. h \in Refers(th[t]) /\ \A u \in Threads : th[u].survivor \in Refers(th[u])
      BY <2>1 DEF Refers
    <3> QED
      BY <2>2, <3>1, <3>2
  <2> HIDE DEF n
  <2>4. posting'[h] = posting[h] /\ posting'[n] = th[t].clusters[k]
    BY <1>3, <2>1, <2>2, <2>3
  <2>5. GoodWrite(t, n) /\ IsFiniteSet(th[t].clusters[k])
    BY <1>3, <1>4, <2>3, <2>4 DEF GoodWrite, Fine
  <2>6. Fine(th'[t], posting')
    <3>1. th'[t].pc = "newhead" /\ th'[t].same >= th'[t].k => th[t].clusters[th[t].same] \subseteq posting[h]
      <4>1. th[t].same \in 0..2
        BY <1>3 DEF ThreadStates
      <4> QED
        BY <1>3, <1>4, <2>1, <4>1 DEF Fine
    <3> QED
      BY <1>3, <2>1, <2>4, <3>1 DEF Fine
  <2> QED
    BY <1>1, <2>1, <2>5, <2>6, BoundWriteStep
<1>12. CASE Unlink(t)
  <2>1. /\ th[t].pc = "unlink" /\ Moved(t) /\ GoesTo(th'[t], th[t], "unlist")
        /\ posting' = posting \/ posting' = [posting EXCEPT ![h] = {}]
    BY <1>12, UnlinkEffect
  <2>2. h \in HeadIds /\ Plain(th'[t], th[t])
    BY <1>3, <2>1 DEF ThreadOK, PlaceInv, SplitPCs, Plain, GoesTo, SameSplit
  <2>3. CASE posting' = posting
    BY <1>1, <2>1, <2>2, <2>3, BoundPlainStep
  <2>4. CASE posting' = [posting EXCEPT ![h] = {}]
    <3>1. GoodWrite(t, h) /\ IsFiniteSet({})
      BY <1>3, <2>2, <2>4, FS_EmptySet DEF GoodWrite
    <3>2. Fine(th'[t], posting')
      BY <1>3, <2>2, PlainIsFine
    <3> QED
      BY <1>1, <2>1, <2>2, <2>4, <3>1, <3>2, BoundWriteStep
  <2> QED
    BY <2>1, <2>3, <2>4
<1> QED
  BY <1>6, <1>7, <1>8, <1>9, <1>10, <1>11, <1>12

LEMMA BoundMerge ==
    ASSUME Types, LockInv, FreshInv, BoundInv, NEW t \in Threads,
           \/ MergeBusy(t) \/ MergeStart(t) \/ MergeHeadGone(t) \/ MergeNotNeeded(t) \/ MergeRead(t)
           \/ (\E o \in HeadIds : MergePick(t, o)) \/ MergeOtherGone(t) \/ MergeWith(t) \/ MergeNoNeighbour(t)
           \/ MergeReassign(t)
    PROVE  BoundInv'
<1> DEFINE h == th[t].head
           cur == th[t].current
<1>1. ClientStep(t) \/ Work(t)
  BY DEF Work
<1>2. Idle.pc = "idle" /\ Idle.clusters = <<{}, {}>>
  BY IdleFields
<1>3. /\ th[t] \in ThreadStates /\ ThreadOK(th[t], version) /\ Fine(th[t], posting) /\ setting \in Settings
      /\ posting \in [HeadIds -> SUBSET Entries] /\ \A i \in HeadIds : IsFiniteSet(posting[i])
  BY DEF Types, Added, BoundInv
<1>4. IsFiniteSet(cur) /\ Cardinality(cur) \in Nat /\ cur \in SUBSET Entries
  BY <1>3, FS_CardinalityType DEF ThreadStates, ThreadOK, Added
<1>5. /\ Limit \in Nat /\ Buffer \in Nat /\ MergeThreshold \in Nat /\ Bound \in Nat
      /\ Bound = MergeThreshold + (Limit + Buffer) /\ ~NoMerges
  <2>1. th[t].pc \in MergePCs
    BY DEF MergePCs, MergeBusy, MergeStart, MergeHeadGone, MergeNotNeeded, MergeRead, MergePick, MergeOtherGone, MergeWith,
           MergeNoNeighbour, MergeReassign
  <2>2. ~NoMerges
    BY <2>1 DEF BoundInv, MergeFree
  <2> QED
    BY <1>3, <2>2, BoundsAre
<1>6. CASE MergeBusy(t) \/ MergeStart(t) \/ MergeHeadGone(t) \/ MergeReassign(t)
  <2>1. Moved(t) /\ posting' = posting /\ (th'[t] = Idle \/ GoesTo(th'[t], th[t], "mergelock"))
    BY <1>6, MergeBusyEffect, MergeStartEffect, MergeHeadGoneEffect, MergeReassignEffect
  <2>2. Plain(th'[t], th[t])
    BY <1>2, <2>1 DEF Plain, GoesTo, SameSplit
  <2> QED
    BY <1>1, <2>1, <2>2, BoundPlainStep
<1>7. CASE MergeNotNeeded(t)
  <2>1. h \in heads /\ posting' = [posting EXCEPT ![h] = Live(h)] /\ Moved(t) /\ th'[t] = Idle
    BY <1>7, MergeNotNeededEffect
  <2>2. h \in HeadIds /\ Live(h) \in SUBSET posting[h]
    BY <2>1 DEF Types, Live
  <2>3. GoodWrite(t, h) /\ IsFiniteSet(Live(h))
    BY <1>3, <2>1, <2>2, FS_Subset DEF GoodWrite
  <2>4. Plain(th'[t], th[t])
    BY <1>2, <2>1 DEF Plain
  <2>5. Fine(th'[t], posting')
    BY <1>3, <2>4, PlainIsFine
  <2> QED
    BY <1>1, <2>1, <2>2, <2>3, <2>5, BoundWriteStep
<1>8. CASE MergeRead(t)
  <2>1. /\ Moved(t) /\ posting' = posting /\ th'[t].pc = "mergewith" /\ th'[t].current = Live(h)
        /\ Cardinality(Live(h)) <= MergeThreshold /\ th'[t].clusters = th[t].clusters
    BY <1>8, MergeReadEffect DEF SameSplit
  <2>2. Fine(th'[t], posting)
    BY <1>3, <2>1 DEF Fine
  <2> QED
    BY <1>1, <2>1, <2>2, BoundQuietStep
<1>9. ASSUME NEW o \in HeadIds, MergePick(t, o) PROVE BoundInv'
  <2>1. /\ th[t].pc = "mergewith" /\ Moved(t) /\ posting' = posting /\ th'[t].pc = "mergeother" /\ th'[t].survivor = o
        /\ th'[t].current = cur /\ Cardinality(cur) + Cardinality(posting[o]) < Limit
        /\ th'[t].clusters = th[t].clusters
    BY <1>9, MergePickEffect DEF SameSplit, StillAll, Size
  <2>2. Cardinality(posting[o]) \in Nat
    BY <1>3, FS_CardinalityType
  <2>3. Cardinality(posting[o]) <= Limit + Buffer
    BY <1>4, <1>5, <2>1, <2>2
  <2>4. Fine(th'[t], posting)
    BY <1>3, <2>1, <2>3 DEF Fine
  <2> QED
    BY <1>1, <2>1, <2>4, BoundQuietStep
<1>10. CASE MergeOtherGone(t)
  <2>1. th[t].pc = "mergeother" /\ Moved(t) /\ posting' = posting /\ th'[t].pc = "mergewith" /\ th'[t].current = cur
        /\ th'[t].clusters = th[t].clusters
    BY <1>10, MergeOtherGoneEffect DEF GoesTo, SameSplit, SameMerge, StillAll
  <2>2. Fine(th'[t], posting)
    BY <1>3, <2>1 DEF Fine
  <2> QED
    BY <1>1, <2>1, <2>2, BoundQuietStep
<1>11. ASSUME th[t].pc \in {"mergewith", "mergeother"}
       PROVE  /\ \A u \in Threads : u # t => th[u].pc # "mergeother"
              /\ h \in HeadIds /\ Cardinality(cur) <= MergeThreshold
  BY <1>3, <1>11 DEF LockInv, ThreadOK, PlaceInv, MergePCs, Fine
<1>12. CASE MergeNoNeighbour(t)
  <2>1. /\ th[t].pc = "mergewith" /\ posting' = [posting EXCEPT ![h] = cur] /\ Moved(t) /\ th'[t] = Idle
    BY <1>12, MergeNoNeighbourEffect
  <2>2. h \in HeadIds /\ posting'[h] = cur
    BY <1>3, <1>11, <2>1
  <2>3. GoodWrite(t, h)
    BY <1>4, <1>5, <1>11, <2>1, <2>2 DEF GoodWrite
  <2>4. Plain(th'[t], th[t])
    BY <1>2, <2>1 DEF Plain
  <2>5. Fine(th'[t], posting')
    BY <1>3, <2>4, PlainIsFine
  <2> QED
    BY <1>1, <1>4, <2>1, <2>2, <2>3, <2>5, BoundWriteStep
<1>13. CASE MergeWith(t)
  <2> DEFINE o == th[t].survivor
             merged == cur \cup Additional(t, o)
  <2>1. th[t].pc = "mergeother" /\ Moved(t) /\ th'[t].pc = "mergereassign" /\ th'[t].clusters = th[t].clusters /\ o \in HeadIds
    BY <1>13, MergeWithEffect DEF Types
  <2>2. PICK gone \in HeadIds, kept \in HeadIds : posting' = [posting EXCEPT ![kept] = merged, ![gone] = {}]
    BY <1>13, MergeWithEffect
  <2>3. IsFiniteSet(merged) /\ Cardinality(merged) <= Bound
    <3>1. Additional(t, o) \in SUBSET posting[o]
      BY DEF Additional, Live
    <3>2. /\ IsFiniteSet(Additional(t, o)) /\ Cardinality(Additional(t, o)) \in Nat /\ Cardinality(posting[o]) \in Nat
          /\ Cardinality(Additional(t, o)) <= Cardinality(posting[o])
      BY <1>3, <2>1, <3>1, Shorter
    <3>3. Cardinality(posting[o]) <= Limit + Buffer
      BY <1>3, <2>1 DEF Fine
    <3>4. IsFiniteSet(cur \cap Additional(t, o))
      BY <1>4, FS_Subset
    <3>5. Cardinality(cur \cap Additional(t, o)) \in Nat
      BY <3>4, FS_CardinalityType
    <3>6. /\ IsFiniteSet(cur \cup Additional(t, o))
          /\ Cardinality(cur \cup Additional(t, o))
               = Cardinality(cur) + Cardinality(Additional(t, o)) - Cardinality(cur \cap Additional(t, o))
      BY <1>4, <3>2, FS_Union
    <3> QED
      BY <1>4, <1>5, <1>11, <2>1, <3>2, <3>3, <3>5, <3>6
  <2> HIDE DEF merged
  <2>4. \A i \in HeadIds : posting'[i] \in {posting[i], merged, {}}
    BY <1>3, <2>2
  <2>5. \A i \in HeadIds : GoodWrite(t, i) /\ IsFiniteSet(posting'[i])
    BY <1>3, <1>11, <2>1, <2>3, <2>4, FS_EmptySet DEF GoodWrite
  <2>6. Plain(th'[t], th[t])
    BY <2>1 DEF Plain
  <2>7. Fine(th'[t], posting')
    BY <1>3, <2>6, PlainIsFine
  <2> QED
    BY <1>1, <2>1, <2>5, <2>7, BoundStep
<1> QED
  BY <1>6, <1>7, <1>8, <1>9, <1>10, <1>12, <1>13

LEMMA BoundNext ==
    ASSUME Types, LockInv, FreshInv, BoundInv, [Next]_vars
    PROVE  BoundInv'
<1>1. CASE Next
  <2>1. PICK t \in Threads : ClientStep(t) \/ Work(t)
    BY <1>1 DEF Next
  <2> QED
    BY <2>1, BoundAppend, BoundSplit, BoundMerge DEF Work
<1>2. CASE UNCHANGED vars
  <2>1. UNCHANGED <<setting, searches, mergeList, jobs, th, posting>>
    BY <1>2 DEF vars
  <2>2. Bound' = Bound /\ MergeThreshold' = MergeThreshold /\ Limit' = Limit /\ Buffer' = Buffer
    BY <2>1 DEF Bound, NoMerges, MergeThreshold, Limit, Buffer
  <2>3. JobSet' = JobSet
    BY <2>1, JobsSame
  <2>4. MergeFree'
    BY <2>1, <2>3 DEF BoundInv, MergeFree, NoMerges
  <2> QED
    BY <2>1, <2>2, <2>4 DEF BoundInv, Fine
<1> QED
  BY <1>1, <1>2

\* What a split or merge holds and will write fits, because nobody else writes the
\* posting it was read from before the lock of its head is released.
THEOREM BoundsHold == Spec => []BoundInv
<1>1. Init => BoundInv
  BY BoundInit
<1>2. (Types /\ LockInv /\ FreshInv /\ ListInv) /\ BoundInv /\ [Next]_vars => BoundInv'
  BY BoundNext
<1> QED
  BY <1>1, <1>2, LocksAndListsHold, PTL DEF Spec

\* While searches start no merge, no posting outgrows the space that is reserved
\* for it (m_postingSizeLimit + m_bufferSizeLimit): Append splits first, and what
\* a split writes is part of what it has read under the lock.
THEOREM PostingsKeepTheirBound == Spec => [](NoMerges => PostingBounded)
<1>1. Types /\ BoundInv => (NoMerges => PostingBounded)
  <2> SUFFICES ASSUME Types, BoundInv, NoMerges, NEW h \in HeadIds PROVE Size(h) <= Limit + Buffer
    BY DEF PostingBounded
  <2>1. Bound = Limit + Buffer
    BY BoundsAre DEF Bound, Types
  <2> QED
    BY <2>1 DEF BoundInv, Size
<1> QED
  BY <1>1, BoundsHold, TypesHold, PTL

\* With merges a posting can also take in what one short posting still has
\* (MergePostings): it holds at most m_mergeThreshold entries beyond that space.
THEOREM MergesKeepABound == Spec => [](\A h \in HeadIds : Size(h) <= Limit + Buffer + MergeThreshold)
<1>1. Types /\ BoundInv => (\A h \in HeadIds : Size(h) <= Limit + Buffer + MergeThreshold)
  <2> SUFFICES ASSUME Types, BoundInv, NEW h \in HeadIds PROVE Size(h) <= Limit + Buffer + MergeThreshold
    OBVIOUS
  <2>1. /\ Limit \in Nat /\ Buffer \in Nat /\ MergeThreshold \in Nat /\ Bound \in Nat
        /\ Bound <= Limit + Buffer + MergeThreshold
    BY BoundsAre DEF Bound, Types
  <2>2. Size(h) \in Nat
    BY FS_CardinalityType DEF Size, Types, Added
  <2> QED
    BY <2>1, <2>2 DEF BoundInv, Size
<1> QED
  BY <1>1, BoundsHold, TypesHold, PTL

(***************************************************************************)
(* No vector is lost                                                       *)
(***************************************************************************)

LEMMA CalmStep ==
    ASSUME Types, LockInv, CalmInv, NEW t \in Threads, Moved(t), setting' = setting,
           collections' = collections,
           \A h \in heads \ heads' : Free(h) \/ Held(t, h),
           KeepsCalm(th'[t], heads')
    PROVE  CalmInv'
<1>1. NoGC' <=> NoGC
  BY DEF NoGC, ExcludeHead
<1>2. ASSUME NEW u \in Threads PROVE KeepsCalm(th'[u], heads')
  <2>1. CASE u # t
    <3>1. th'[u] = th[u] /\ KeepsCalm(th[u], heads) /\ u # None
      BY <2>1, ThreadAssumption DEF Moved, CalmInv
    <3>2. ASSUME th[u].pc \in {"newhead", "put", "unlink"} PROVE th[u].head \in heads'
      <4>1. th[u].head \in heads /\ th[u].head \in HeadIds
        BY <3>1, <3>2 DEF KeepsCalm, Types
      <4>2. lock[Hash(th[u].head)] = u
        BY <3>2, <4>1, HashRange DEF LockInv, Locks
      <4> QED
        BY <2>1, <3>1, <4>1, <4>2 DEF Free, Held
    <3> QED
      BY <3>1, <3>2 DEF KeepsCalm
  <2> QED
    BY <2>1
<1> QED
  BY <1>1, <1>2 DEF CalmInv, KeepsCalm

\* A step that leaves the heads alone and ends neither before an append with
\* selected heads nor within a split.
LEMMA CalmQuietStep ==
    ASSUME Types, LockInv, CalmInv, NEW t \in Threads, Moved(t), setting' = setting,
           collections' = collections, heads' = heads, KeepsCalm(th'[t], heads)
    PROVE  CalmInv'
<1>1. KeepsCalm(th'[t], heads') /\ heads \ heads' = {}
  OBVIOUS
<1> QED
  BY <1>1, CalmStep

LEMMA IdleCalm == \A hs : KeepsCalm(Idle, hs)
BY IdleFields DEF KeepsCalm, SplitPCs

LEMMA ReturnsCalm ==
    ASSUME NEW r \in ThreadStates, NEW q, NEW hs, Returns(q, r), KeepsCalm(r, hs)
    PROVE  KeepsCalm(q, hs)
<1>1. CASE q = Idle
  BY <1>1, IdleCalm
<1>2. CASE q # Idle
  <2>1. q.pc = r.after /\ r.after \in {"append", "next", "gc"} /\ q.after = r.after
    BY <1>2 DEF Returns, SameCall, ThreadStates
  <2> QED
    BY <2>1 DEF KeepsCalm, SplitPCs
<1> QED
  BY <1>1, <1>2

LEMMA CalmInit == Init => CalmInv
BY IdleCalm DEF Init, CalmInv

LEMMA CalmAppend ==
    ASSUME Types, LockInv, CalmInv, NEW t \in Threads,
           ClientStep(t) \/ TakeJob(t) \/ CollectNext(t)
           \/ NextSelection(t) \/ HeadMiss(t) \/ AppendPosting(t) \/ CheckSize(t)
           \/ SelectHeads(t) \/ RecheckVersion(t) \/ Increment(t)
    PROVE  CalmInv'
<1>1. KeepsCalm(th[t], heads) /\ (NoGC => collections = 0) /\ KeepsCalm(Idle, heads)
  BY IdleCalm DEF CalmInv
<1>2. ASSUME NEW v \in Vectors, AddIndex(t, v) PROVE CalmInv'
  <2>1. /\ Moved(t) /\ UNCHANGED <<setting, collections, heads>> /\ th'[t].pc = "next" /\ th'[t].after = "idle"
    BY <1>2, AddIndexEffect, IdleFields DEF SameCall
  <2> QED
    BY <2>1, CalmQuietStep DEF KeepsCalm, SplitPCs
<1>3. ASSUME NEW v \in Vectors, DeleteIndex(t, v) PROVE CalmInv'
  <2>1. /\ Moved(t) /\ UNCHANGED <<setting, collections, heads, th>>
    BY <1>3, DeleteIndexEffect DEF Moved, Types
  <2> QED
    BY <1>1, <2>1, CalmQuietStep
<1>4. ASSUME NEW h \in HeadIds, SearchIndex(t, h) PROVE CalmInv'
  <2>1. /\ Moved(t) /\ UNCHANGED <<setting, collections, heads, th>>
    BY <1>4, SearchIndexEffect DEF Moved, Types
  <2> QED
    BY <1>1, <2>1, CalmQuietStep
<1>5. ASSUME ForceGC(t) PROVE CalmInv'
  <2>1. /\ collections < setting.collections /\ Moved(t) /\ UNCHANGED <<setting, heads>> /\ th'[t].pc = "gc"
    BY <1>5, ForceGCEffect DEF GoesTo
  <2>2. ~NoGC /\ ~NoGC'
    BY <1>1, <2>1 DEF NoGC, ExcludeHead
  <2>3. \A u \in Threads : KeepsCalm(th'[u], heads')
    BY <2>1, <2>2 DEF CalmInv, KeepsCalm, Moved
  <2> QED
    BY <2>2, <2>3 DEF CalmInv, KeepsCalm
<1>6. CASE TakeJob(t)
  <2>1. /\ Moved(t) /\ UNCHANGED <<setting, collections, heads>> /\ th'[t].after = "idle"
        /\ th'[t].pc = "merge" \/ (th'[t].pc \in {"split", "reassign"} /\ th'[t].reassign)
    BY <1>6, TakeJobEffect
  <2> QED
    BY <2>1, CalmQuietStep DEF KeepsCalm, SplitPCs
<1>7. CASE CollectNext(t)
  <2>1. th[t].pc = "gc" /\ Moved(t) /\ UNCHANGED <<setting, collections, heads>> /\ (th'[t] = Idle \/ th'[t].pc \in {"split", "gc"})
    BY <1>7, CollectNextEffect
  <2>2. ~NoGC
    BY <1>1, <2>1 DEF KeepsCalm
  <2>3. KeepsCalm(th'[t], heads)
    BY <1>1, <2>1, <2>2 DEF KeepsCalm
  <2> QED
    BY <2>1, <2>3, CalmQuietStep
<1>8. CASE NextSelection(t) \/ HeadMiss(t) \/ AppendPosting(t) \/ CheckSize(t)
           \/ SelectHeads(t) \/ RecheckVersion(t) \/ Increment(t)
  <2>1. Moved(t) /\ UNCHANGED <<setting, collections, heads>>
    BY <1>8, NextSelectionEffect, HeadMissEffect, AppendPostingEffect, CheckSizeEffect, SelectHeadsEffect,
       RecheckVersionEffect, IncrementEffect DEF StillAll
  <2>2. \/ th'[t] = Idle
        \/ /\ th'[t].pc \in {"next", "append", "sized"} /\ th'[t].after = th[t].after
        \/ /\ th'[t].pc = "split" /\ th'[t].after \in {"append", "next"} /\ th'[t].reassign
        \/ /\ th'[t].pc \in {"bump", "increment"} /\ th'[t].after = th[t].after
           /\ (th'[t].todo # {} \/ (th'[t].todo = th[t].todo /\ th[t].pc = "bump"))
    <3>1. CASE NextSelection(t)
      BY <3>1, NextSelectionEffect
    <3>2. CASE HeadMiss(t)
      BY <3>2, HeadMissEffect DEF GoesTo, SameCall
    <3>3. CASE AppendPosting(t)
      BY <3>3, AppendPostingEffect DEF GoesTo, SameCall, CallsSplit
    <3>4. CASE CheckSize(t)
      BY <3>4, CheckSizeEffect DEF GoesTo, SameCall, CallsSplit
    <3>5. CASE SelectHeads(t)
      BY <3>5, SelectHeadsEffect DEF SameCall
    <3>6. CASE RecheckVersion(t)
      BY <3>6, RecheckVersionEffect DEF GoesTo, SameCall
    <3>7. CASE Increment(t)
      BY <3>7, IncrementEffect DEF GoesTo, SameCall
    <3> QED
      BY <1>8, <3>1, <3>2, <3>3, <3>4, <3>5, <3>6, <3>7
  <2>3. KeepsCalm(th'[t], heads)
    <3>1. CASE th'[t] = Idle
      BY <1>1, <3>1
    <3>2. CASE th'[t] # Idle
      BY <1>1, <2>2, <3>2 DEF KeepsCalm, SplitPCs
    <3> QED
      BY <3>1, <3>2
  <2> QED
    BY <2>1, <2>3, CalmQuietStep
<1> QED
  BY <1>2, <1>3, <1>4, <1>5, <1>6, <1>7, <1>8 DEF ClientStep

LEMMA CalmSplit ==
    ASSUME Types, LockInv, CalmInv, NEW t \in Threads,
           \/ SplitHeadGone(t) \/ SplitCollect(t) \/ SplitOneCluster(t) \/ SplitTwoClusters(t)
           \/ KeepHead(t) \/ NewHead(t) \/ PutNewPosting(t) \/ Unlink(t) \/ Unlist(t) \/ CollectReAssign(t)
    PROVE  CalmInv'
<1> DEFINE h == th[t].head
<1>1. KeepsCalm(th[t], heads) /\ th[t] \in ThreadStates /\ ThreadOK(th[t], version)
  BY DEF CalmInv, Types
<1>2. CASE SplitHeadGone(t) \/ SplitCollect(t) \/ SplitOneCluster(t) \/ CollectReAssign(t)
  <2>1. Moved(t) /\ UNCHANGED <<setting, collections, heads>> /\ Returns(th'[t], th[t])
    BY <1>2, SplitHeadGoneEffect, SplitKeepsEffect, CollectReAssignEffect
  <2>2. KeepsCalm(th'[t], heads)
    BY <1>1, <2>1, ReturnsCalm
  <2> QED
    BY <2>1, <2>2, CalmQuietStep
<1>3. CASE SplitTwoClusters(t) \/ KeepHead(t) \/ NewHead(t) \/ PutNewPosting(t)
  <2>1. /\ Moved(t) /\ UNCHANGED <<setting, collections>> /\ heads \subseteq heads' /\ SameCall(th'[t], th[t])
        /\ th[t].pc \in {"newhead", "put"} \/ (th[t].pc = "split" /\ h \in heads)
        /\ th'[t].pc \in {"newhead", "put", "unlink"}
    <3>1. CASE SplitTwoClusters(t)
      BY <3>1, SplitTwoClustersEffect
    <3>2. CASE KeepHead(t)
      BY <3>2, KeepHeadEffect DEF Advances
    <3>3. CASE NewHead(t)
      BY <3>3, NewHeadEffect
    <3>4. CASE PutNewPosting(t)
      BY <3>4, PutNewPostingEffect DEF Advances
    <3> QED
      BY <1>3, <3>1, <3>2, <3>3, <3>4
  <2>2. KeepsCalm(th'[t], heads')
    BY <1>1, <2>1 DEF KeepsCalm, SameCall, SplitPCs
  <2> QED
    BY <2>1, <2>2, CalmStep
<1>4. CASE Unlink(t)
  <2>1. /\ th[t].pc = "unlink" /\ Moved(t) /\ UNCHANGED <<setting, collections>> /\ heads \ heads' \subseteq {h}
        /\ GoesTo(th'[t], th[t], "unlist")
    BY <1>4, UnlinkEffect
  <2>2. Held(t, h)
    BY <1>1, <2>1, HashRange DEF LockInv, Locks, Held, ThreadOK, PlaceInv, SplitPCs
  <2>3. KeepsCalm(th'[t], heads')
    BY <1>1, <2>1 DEF KeepsCalm, GoesTo, SameCall, SplitPCs
  <2> QED
    BY <2>1, <2>2, <2>3, CalmStep
<1>5. CASE Unlist(t)
  <2>1. Moved(t) /\ UNCHANGED <<setting, collections, heads>>
        /\ (Returns(th'[t], th[t]) \/ (th[t].reassign /\ GoesTo(th'[t], th[t], "collect")))
    BY <1>5, UnlistEffect
  <2>2. CASE Returns(th'[t], th[t])
    BY <1>1, <2>1, <2>2, ReturnsCalm, CalmQuietStep
  <2>3. CASE th[t].reassign /\ GoesTo(th'[t], th[t], "collect")
    <3>1. KeepsCalm(th'[t], heads)
      BY <1>1, <2>3 DEF KeepsCalm, GoesTo, SameCall
    <3> QED
      BY <2>1, <3>1, CalmQuietStep
  <2> QED
    BY <2>1, <2>2, <2>3
<1> QED
  BY <1>2, <1>3, <1>4, <1>5

LEMMA CalmMerge ==
    ASSUME Types, LockInv, CalmInv, NEW t \in Threads,
           \/ MergeBusy(t) \/ MergeStart(t) \/ MergeHeadGone(t) \/ MergeNotNeeded(t) \/ MergeRead(t)
           \/ (\E o \in HeadIds : MergePick(t, o)) \/ MergeOtherGone(t) \/ MergeWith(t) \/ MergeNoNeighbour(t)
           \/ MergeReassign(t)
    PROVE  CalmInv'
<1> DEFINE h == th[t].head
<1>1. KeepsCalm(th[t], heads) /\ th[t] \in ThreadStates /\ ThreadOK(th[t], version) /\ \A hs : KeepsCalm(Idle, hs)
  BY IdleCalm DEF CalmInv, Types
<1>2. /\ Moved(t) /\ UNCHANGED <<setting, collections>>
      /\ th'[t] = Idle \/ (th'[t].pc \in MergePCs /\ th'[t].after = th[t].after)
      /\ heads' = heads \/ MergeWith(t)
  <2>1. CASE MergeBusy(t) \/ MergeHeadGone(t) \/ MergeNotNeeded(t) \/ MergeNoNeighbour(t) \/ MergeReassign(t)
    BY <2>1, MergeBusyEffect, MergeHeadGoneEffect, MergeNotNeededEffect, MergeNoNeighbourEffect, MergeReassignEffect
  <2>2. CASE MergeStart(t) \/ MergeOtherGone(t)
    BY <2>2, MergeStartEffect, MergeOtherGoneEffect DEF GoesTo, SameCall, StillAll, MergePCs
  <2>3. CASE MergeRead(t)
    BY <2>3, MergeReadEffect DEF SameCall, MergePCs
  <2>4. ASSUME NEW o \in HeadIds, MergePick(t, o)
        PROVE  /\ Moved(t) /\ UNCHANGED <<setting, collections>> /\ th'[t].pc \in MergePCs /\ th'[t].after = th[t].after
               /\ heads' = heads
    BY <2>4, MergePickEffect DEF SameCall, StillAll, MergePCs
  <2>5. CASE MergeWith(t)
    BY <2>5, MergeWithEffect DEF SameCall, MergePCs
  <2> QED
    BY <2>1, <2>2, <2>3, <2>4, <2>5
<1>3. KeepsCalm(th'[t], heads')
  <2>1. CASE th'[t] = Idle
    BY <1>1, <2>1
  <2>2. CASE th'[t] # Idle
    BY <1>1, <1>2, <2>2 DEF KeepsCalm, MergePCs, SplitPCs
  <2> QED
    BY <2>1, <2>2
<1>4. \A i \in heads \ heads' : Free(i) \/ Held(t, i)
  <2>1. CASE MergeWith(t)
    <3>1. th[t].pc = "mergeother" /\ CanLockOther(t) /\ heads \ heads' \subseteq {h, th[t].survivor}
      BY <2>1, MergeWithEffect
    <3>2. Held(t, h)
      BY <1>1, <3>1, HashRange DEF LockInv, Locks, Held, ThreadOK, PlaceInv, MergePCs
    <3> QED
      BY <3>1, <3>2 DEF CanLockOther, Held
  <2> QED
    BY <1>2, <2>1
<1> QED
  BY <1>2, <1>3, <1>4, CalmStep

LEMMA CalmNext ==
    ASSUME Types, LockInv, CalmInv, [Next]_vars
    PROVE  CalmInv'
<1>1. CASE Next
  <2>1. PICK t \in Threads : ClientStep(t) \/ Work(t)
    BY <1>1 DEF Next
  <2> QED
    BY <2>1, CalmAppend, CalmSplit, CalmMerge DEF Work
<1>2. CASE UNCHANGED vars
  BY <1>2 DEF vars, CalmInv, KeepsCalm, NoGC, ExcludeHead
<1> QED
  BY <1>1, <1>2

LEMMA SafeByThread ==
    ASSUME NEW v, NEW e, NEW t \in Threads,
           Holds(th'[t], e) \/ Bears(th[t], e)' \/ (ExcludeHead' /\ (Crowns(th[t], v)' \/ Orphans(th[t], v)'))
    PROVE  Safe(v, e)'
BY DEF Safe, Holds

LEMMA SafeByPosting ==
    ASSUME NEW v, NEW e, NEW h \in heads', Solid(h)', e \in posting'[h]
    PROVE  Safe(v, e)'
BY DEF Safe

LEMMA SafeByHead ==
    ASSUME NEW v, NEW e, NEW h \in heads', ExcludeHead', headVector'[h] = v
    PROVE  Safe(v, e)'
BY DEF Safe

LEMMA SafeByJob ==
    ASSUME NEW v, NEW e, NEW j \in JobSet', j.kind = "reassign", j.entry = e, j.prev \notin heads'
    PROVE  Safe(v, e)'
BY DEF Safe

\* A head that no other split is to overwrite, unless that of t is.
LEMMA SolidStays ==
    ASSUME NEW t \in Threads, Moved(t), NEW h \in heads', Solid(h), ~(Overwrites(th'[t]) /\ th'[t].head = h)
    PROVE  Solid(h)'
BY DEF Solid, Moved

\* What keeps an entry safe when t moves: each reason either stays or is
\* replaced by another.
LEMMA SafeStep ==
    ASSUME Types, FreshInv, NEW t \in Threads, Moved(t), setting' = setting, NEW v, NEW e, Safe(v, e),
           \A h \in heads : Solid(h) /\ e \in posting[h] =>
             \/ h \in heads' /\ e \in posting'[h] /\ ~(Overwrites(th'[t]) /\ th'[t].head = h)
             \/ Safe(v, e)',
           Holds(th[t], e) \/ Bears(th[t], e) => Safe(v, e)',
           \A j \in JobSet : j.kind = "reassign" /\ j.entry = e /\ j.prev \notin heads => j \in JobSet' \/ Safe(v, e)',
           ExcludeHead => \A h \in heads : headVector[h] = v => h \in heads' \/ Safe(v, e)',
           ExcludeHead /\ (Crowns(th[t], v) \/ Orphans(th[t], v)) => Safe(v, e)',
           \A i \in Used : i \in heads' => i \in heads,
           \A i \in 0..(nextHead - 1) : headVector'[i] = headVector[i]
    PROVE  Safe(v, e)'
<1>1. /\ \A u \in Threads : u # t => th'[u] = th[u]
      /\ ExcludeHead' = ExcludeHead
      /\ Used \subseteq -1..(nextHead - 1)
  BY DEF Moved, ExcludeHead, FreshInv
<1>2. \A u \in Threads : Refers(th[u]) \subseteq Used
  BY DEF Used
<1>3. ASSUME NEW h \in heads, Solid(h), e \in posting[h] PROVE Safe(v, e)'
  BY <1>3, SolidStays, SafeByPosting
<1>4. ASSUME NEW u \in Threads, Holds(th[u], e) PROVE Safe(v, e)'
  <2>1. CASE u # t
    BY <1>1, <1>4, <2>1, SafeByThread
  <2> QED
    BY <1>4, <2>1
<1>5. ASSUME NEW u \in Threads, Bears(th[u], e) PROVE Safe(v, e)'
  <2>1. CASE u # t
    <3>1. th[u].prev \in Refers(th[u])
      BY DEF Refers
    <3>2. th[u].prev \notin heads => th[u].prev \notin heads'
      BY <1>2, <3>1
    <3>3. Bears(th[u], e)'
      BY <1>1, <1>5, <2>1, <3>2 DEF Bears
    <3> QED
      BY <3>3, SafeByThread
  <2> QED
    BY <1>5, <2>1
<1>6. ASSUME NEW j \in JobSet, j.kind = "reassign", j.entry = e, j.prev \notin heads PROVE Safe(v, e)'
  <2>1. j.prev \in Used
    BY <1>6 DEF Used, JobRef
  <2> QED
    BY <1>6, <2>1, SafeByJob
<1>7. ASSUME ExcludeHead, NEW h \in heads, headVector[h] = v PROVE Safe(v, e)'
  <2>1. h \in 0..(nextHead - 1)
    BY <1>1, BoundAssumption DEF Used, Types, HeadIds
  <2> QED
    BY <1>1, <1>7, <2>1, SafeByHead
<1>8. ASSUME ExcludeHead, NEW u \in Threads, Crowns(th[u], v) \/ Orphans(th[u], v) PROVE Safe(v, e)'
  <2>1. CASE u # t
    <3>1. th'[u] = th[u]
      BY <1>1, <2>1
    <3>2. CASE Crowns(th[u], v)
      <4>1. th[u].pc = "put" /\ Pending(u) \in 0..(nextHead - 1) /\ headVector[Pending(u)] = v
        BY <3>2 DEF Crowns, FreshInv, Pending
      <4>2. Crowns(th[u], v)'
        BY <3>1, <4>1 DEF Crowns, Pending
      <4> QED
        BY <1>1, <1>8, <4>2, SafeByThread
    <3>3. CASE Orphans(th[u], v)
      <4>1. th[u].head \in Refers(th[u]) /\ th[u].head \in HeadIds
        BY <3>3 DEF Orphans, Refers, Types, ThreadOK, PlaceInv, SplitPCs
      <4>2. th[u].head \in 0..(nextHead - 1)
        BY <1>1, <1>2, <4>1, BoundAssumption DEF HeadIds, Types
      <4>3. Orphans(th[u], v)'
        BY <3>1, <3>3, <4>2 DEF Orphans
      <4> QED
        BY <1>1, <1>8, <4>3, SafeByThread
    <3> QED
      BY <1>8, <3>2, <3>3
  <2> QED
    BY <1>8, <2>1
<1> QED
  BY <1>3, <1>4, <1>5, <1>6, <1>7, <1>8 DEF Safe

\* A step that changes neither the heads nor what they hold.
LEMMA SafeQuietStep ==
    ASSUME Types, FreshInv, NEW t \in Threads, Moved(t), UNCHANGED <<setting, heads, headVector, posting>>,
           NEW v, NEW e, Safe(v, e), ~Overwrites(th'[t]),
           Holds(th[t], e) \/ Bears(th[t], e) => Safe(v, e)',
           \A j \in JobSet : j.kind = "reassign" /\ j.entry = e /\ j.prev \notin heads => j \in JobSet' \/ Safe(v, e)',
           ExcludeHead /\ (Crowns(th[t], v) \/ Orphans(th[t], v)) => Safe(v, e)'
    PROVE  Safe(v, e)'
<1>1. /\ \A h \in heads : h \in heads' /\ posting'[h] = posting[h]
      /\ \A i \in Used : i \in heads' => i \in heads
      /\ \A i \in 0..(nextHead - 1) : headVector'[i] = headVector[i]
      /\ setting' = setting
  OBVIOUS
<1> QED
  BY <1>1, SafeStep

\* A head whose lock no other thread holds is overwritten by none of them.
LEMMA SolidWhenLocked ==
    ASSUME Types, LockInv, NEW t \in Threads, Moved(t), NEW h \in HeadIds, h \in heads', Free(h) \/ Held(t, h),
           ~(Overwrites(th'[t]) /\ th'[t].head = h)
    PROVE  Solid(h)'
<1>1. ASSUME NEW u \in Threads, Overwrites(th'[u]), th'[u].head = h PROVE FALSE
  <2>1. u # t /\ th'[u] = th[u]
    BY <1>1 DEF Moved
  <2>2. Locks(th[u])
    BY <1>1, <2>1 DEF Overwrites, Locks
  <2>3. lock[Hash(h)] = u
    BY <1>1, <2>1, <2>2, HashRange DEF LockInv
  <2> QED
    BY <2>1, <2>3, ThreadAssumption DEF Free, Held
<1> QED
  BY <1>1 DEF Solid

\* The steps of clients and of Append and Reassign keep the current entry of a
\* vector safe, unless they change the vector's version.
LEMMA SafeAppend ==
    ASSUME Types, LockInv, FreshInv, NEW t \in Threads, NEW v \in Vectors, NEW e, e = <<v, version[v]>>, Safe(v, e),
           version'[v] = version[v],
           \/ (\E w \in Vectors : AddIndex(t, w) \/ DeleteIndex(t, w)) \/ ForceGC(t) \/ TakeJob(t) \/ CollectNext(t)
           \/ NextSelection(t) \/ HeadMiss(t) \/ AppendPosting(t) \/ CheckSize(t)
           \/ SelectHeads(t) \/ RecheckVersion(t) \/ Increment(t)
    PROVE  Safe(v, e)'
<1> DEFINE r == th[t]
           q == th'[t]
           Kept == \A j \in JobSet : j.kind = "reassign" /\ j.entry = e /\ j.prev \notin heads => j \in JobSet' \/ Safe(v, e)'
           Carried == Holds(r, e) \/ Bears(r, e) => Safe(v, e)'
<1>0. r \in ThreadStates /\ ThreadOK(r, version)
  BY DEF Types
<1>1. ASSUME Moved(t), UNCHANGED <<setting, heads, headVector, posting>>, Kept, Carried,
             q.pc \notin {"newhead", "put", "unlink"}, r.pc \notin {"put", "unlist", "collect"}
      PROVE  Safe(v, e)'
  <2>1. ~Overwrites(q) /\ ~Crowns(r, v) /\ ~Orphans(r, v)
    BY <1>1 DEF Overwrites, Crowns, Orphans
  <2> QED
    BY <1>1, <2>1, SafeQuietStep
<1>2. jobs' = jobs => Kept
  BY JobsSame
<1>3. r.pc \in {"idle", "gc"} => Carried
  BY DEF Holds, Bears, SplitPCs
<1>4. Bears(th[t], e)' => Safe(v, e)'
  BY SafeByThread
<1>5. Bears(r, e) => r.vid = v /\ r.ver = version[v]
  BY DEF Bears
<1>6. r.pc \in MovePCs => ~Holds(r, e)
  BY DEF MovePCs, Holds
<1>7. ASSUME NEW w \in Vectors, AddIndex(t, w) PROVE Safe(v, e)'
  <2>1. /\ r.pc = "idle" /\ Moved(t) /\ q.pc = "next"
        /\ UNCHANGED <<setting, heads, headVector, posting, jobs>>
    BY <1>7, AddIndexEffect
  <2> QED
    BY <1>1, <1>2, <1>3, <2>1
<1>8. ASSUME NEW w \in Vectors, DeleteIndex(t, w) PROVE Safe(v, e)'
  <2>1. /\ Moved(t) /\ q = r /\ r.pc = "idle" /\ UNCHANGED <<setting, heads, headVector, posting, jobs>>
    BY <1>8, DeleteIndexEffect DEF Moved, Types, DeleteIndex
  <2> QED
    BY <1>1, <1>2, <1>3, <2>1
<1>9. CASE ForceGC(t)
  <2>1. /\ r.pc = "idle" /\ Moved(t) /\ q.pc = "gc"
        /\ UNCHANGED <<setting, heads, headVector, posting, jobs>>
    BY <1>9, ForceGCEffect DEF GoesTo
  <2> QED
    BY <1>1, <1>2, <1>3, <2>1
<1>10. CASE CollectNext(t)
  <2>1. /\ r.pc = "gc" /\ Moved(t) /\ (q = Idle \/ q.pc \in {"split", "gc"})
        /\ UNCHANGED <<setting, heads, headVector, posting, jobs>>
    BY <1>10, CollectNextEffect
  <2>2. q.pc \notin {"newhead", "put", "unlink"}
    BY <2>1, IdleFields
  <2> QED
    BY <1>1, <1>2, <1>3, <2>1, <2>2
<1>11. CASE TakeJob(t)
  <2> DEFINE j == Head(jobs)
  <2>1. /\ r.pc = "idle" /\ Moved(t) /\ q.pc \in {"split", "merge", "reassign"}
        /\ UNCHANGED <<setting, heads, headVector, posting>>
        /\ j.kind = "reassign" => /\ q.pc = "reassign" /\ q.vid = j.entry[1] /\ q.ver = j.entry[2] /\ q.prev = j.prev
        /\ jobs # <<>> /\ jobs' = Tail(jobs)
    BY <1>11, TakeJobEffect
  <2>2. JobSet \subseteq JobSet' \cup {j}
    BY <2>1, JobTaken DEF Types
  <2>3. ASSUME j.kind = "reassign", j.entry = e, j.prev \notin heads PROVE Safe(v, e)'
    <3>1. q.vid = v /\ q.ver = version[v]
      BY <2>1, <2>3
    <3>2. Bears(th[t], e)'
      BY <2>1, <2>3, <3>1 DEF Bears
    <3> QED
      BY <1>4, <3>2
  <2> HIDE DEF j
  <2>4. Kept
    BY <2>2, <2>3
  <2> QED
    BY <1>1, <1>3, <2>1, <2>4
<1>12. CASE NextSelection(t)
  <2>1. /\ r.pc = "next" /\ Moved(t) /\ UNCHANGED <<setting, heads, headVector, posting, jobs>>
        /\ \/ (r.todo = {} \/ version[r.vid] # r.ver) /\ q = Idle
           \/ q.pc = "append" /\ SameVector(q, r)
    BY <1>12, NextSelectionEffect DEF StillAll
  <2>2. Carried
    <3>1. Bears(r, e) => r.todo # {}
      BY <2>1 DEF Bears, SplitPCs
    <3>2. Bears(r, e) => Bears(th[t], e)'
      BY <1>5, <2>1, <3>1 DEF Bears, SameVector
    <3> QED
      BY <1>4, <1>6, <2>1, <3>2 DEF MovePCs
  <2>3. q.pc \notin {"newhead", "put", "unlink"}
    BY <2>1, IdleFields
  <2> QED
    BY <1>1, <1>2, <2>1, <2>2, <2>3
<1>13. CASE HeadMiss(t)
  <2> DEFINE j == ReassignJob(<<r.vid, r.ver>>, r.head)
  <2>1. /\ r.pc = "append" /\ r.head \notin heads /\ Moved(t) /\ UNCHANGED <<setting, heads, headVector, posting>>
        /\ GoesTo(q, r, "next") /\ jobs' = IF version[r.vid] = r.ver THEN Append(jobs, j) ELSE jobs
    BY <1>13, HeadMissEffect
  <2>2. j \in Jobs
    BY <1>0, <2>1 DEF Jobs, ReassignJob, Entries, HeadRefs, ThreadOK, PlaceInv, Moves, MovePCs, ThreadStates
  <2>3. JobSet \subseteq JobSet' /\ (version[r.vid] = r.ver => j \in JobSet')
    <3>1. CASE version[r.vid] = r.ver
      <4> HIDE DEF j
      <4> QED
        BY <2>1, <2>2, <3>1, JobsAppended DEF Types
    <3>2. CASE version[r.vid] # r.ver
      BY <2>1, <3>2, JobsSame
    <3> QED
      BY <3>1, <3>2
  <2>4. ASSUME Bears(r, e) PROVE Safe(v, e)'
    <3>1. j \in JobSet'
      BY <1>5, <2>3, <2>4
    <3>2. j.kind = "reassign" /\ j.entry = e /\ j.prev \notin heads'
      BY <1>5, <2>1, <2>4 DEF ReassignJob
    <3> HIDE DEF j
    <3> QED
      BY <3>1, <3>2, SafeByJob
  <2>5. Carried /\ Kept
    BY <1>6, <2>1, <2>3, <2>4 DEF MovePCs
  <2> QED
    BY <1>1, <2>1, <2>5 DEF GoesTo
<1>14. CASE CheckSize(t) \/ SelectHeads(t) \/ RecheckVersion(t)
  <2>1. /\ Moved(t) /\ UNCHANGED <<setting, heads, headVector, posting>>
        /\ r.pc \in {"sized", "reassign", "bump"}
        /\ q = Idle \/ (q.pc \in {"split", "next", "bump", "increment"} /\ SameVector(q, r))
    BY <1>14, CheckSizeEffect, SelectHeadsEffect, RecheckVersionEffect DEF StillAll, GoesTo, CallsSplit
  <2>2. Kept
    <3>1. JobSet \subseteq JobSet'
      <4>1. CASE jobs' = jobs
        BY <4>1, JobsSame
      <4>2. CASE CheckSize(t) /\ jobs' # jobs
        <5>1. r.head \in HeadIds /\ jobs' = Append(jobs, SplitJob(r.head))
          BY <1>0, <4>2, CheckSizeEffect DEF ThreadOK, PlaceInv
        <5>2. SplitJob(r.head) \in Jobs
          BY <5>1 DEF SplitJob, Jobs
        <5> QED
          BY <5>1, <5>2, JobsAppended DEF Types
      <4> QED
        BY <1>14, <4>1, <4>2, SelectHeadsEffect, RecheckVersionEffect DEF StillAll
    <3> QED
      BY <3>1
  <2>3. ASSUME Bears(r, e) PROVE Bears(th[t], e)'
    <3>1. CASE CheckSize(t)
      BY <2>3, <3>1, CheckSizeEffect DEF Bears, CallsSplit, GoesTo, SameVector, SplitPCs
    <3>2. CASE SelectHeads(t)
      BY <1>5, <2>3, <3>2, SelectHeadsEffect DEF Bears, SameVector, SplitPCs
    <3>3. CASE RecheckVersion(t)
      BY <1>5, <2>3, <3>3, RecheckVersionEffect DEF Bears, GoesTo, SameVector, SplitPCs
    <3> QED
      BY <1>14, <3>1, <3>2, <3>3
  <2>4. Carried
    BY <1>4, <1>6, <2>1, <2>3 DEF MovePCs
  <2>5. q.pc \notin {"newhead", "put", "unlink"}
    BY <2>1, IdleFields
  <2> QED
    BY <1>1, <2>1, <2>2, <2>4, <2>5
<1>15. CASE Increment(t)
  <2>1. /\ r.pc = "increment" /\ Moved(t) /\ UNCHANGED <<setting, heads, headVector, posting, jobs>> /\ q.pc = "next"
        /\ GoesTo(q, r, "next") \/ (version[r.vid] \in Nat /\ version' = [version EXCEPT ![r.vid] = @ + 1])
    BY <1>15, IncrementEffect DEF GoesTo
  <2>2. Carried
    <3>1. ASSUME Bears(r, e) PROVE Bears(th[t], e)'
      <4>1. GoesTo(q, r, "next")
        BY <1>5, <2>1, <3>1 DEF Types
      <4> QED
        BY <2>1, <3>1, <4>1 DEF Bears, GoesTo, SameVector, SplitPCs
    <3> QED
      BY <1>4, <1>6, <2>1, <3>1 DEF MovePCs
  <2> QED
    BY <1>1, <1>2, <2>1, <2>2
<1>16. CASE AppendPosting(t)
  <2> DEFINE h == r.head
  <2>1. r.pc = "append" /\ h \in heads /\ Free(h) /\ Moved(t) /\ UNCHANGED <<setting, heads, headVector, jobs, nextHead>>
    BY <1>16, AppendPostingEffect
  <2>2. CASE CallsSplit(q, r, "append") /\ posting' = posting
    <3>1. Bears(r, e) => Bears(th[t], e)'
      BY <2>1, <2>2 DEF Bears, CallsSplit, SameVector, SplitPCs
    <3>2. Carried
      BY <1>4, <1>6, <2>1, <3>1 DEF MovePCs
    <3> QED
      BY <1>1, <1>2, <2>1, <2>2, <3>2 DEF CallsSplit
  <2>3. CASE posting' = [posting EXCEPT ![h] = @ \cup {<<r.vid, r.ver>>}] /\ GoesTo(q, r, "sized")
    <3>1. /\ ~Overwrites(q) /\ ~Crowns(r, v) /\ ~Orphans(r, v) /\ ~Holds(r, e)
      BY <2>1, <2>3 DEF Overwrites, Crowns, Orphans, Holds, GoesTo
    <3>2. ASSUME NEW i \in heads, e \in posting[i] PROVE e \in posting'[i]
      BY <2>3, <3>2 DEF Types
    <3>3. ASSUME Bears(r, e) PROVE Safe(v, e)'
      <4>1. PICK i \in HeadIds : i = h
        BY <2>1 DEF Types
      <4>2. e \in posting'[i]
        BY <1>5, <2>3, <3>3, <4>1 DEF Types
      <4>3. i \in heads' /\ Free(i)
        BY <2>1, <4>1
      <4>4. Solid(i)'
        BY <2>1, <3>1, <4>3, SolidWhenLocked
      <4> QED
        BY <4>2, <4>3, <4>4, SafeByPosting
    <3>4. /\ \A i \in heads : Solid(i) /\ e \in posting[i] =>
                \/ i \in heads' /\ e \in posting'[i] /\ ~(Overwrites(th'[t]) /\ th'[t].head = i)
                \/ Safe(v, e)'
          /\ Holds(th[t], e) \/ Bears(th[t], e) => Safe(v, e)'
          /\ \A j \in JobSet : j.kind = "reassign" /\ j.entry = e /\ j.prev \notin heads => j \in JobSet' \/ Safe(v, e)'
          /\ ExcludeHead => \A i \in heads : headVector[i] = v => i \in heads' \/ Safe(v, e)'
          /\ ExcludeHead /\ (Crowns(th[t], v) \/ Orphans(th[t], v)) => Safe(v, e)'
          /\ \A i \in Used : i \in heads' => i \in heads
          /\ \A i \in 0..(nextHead - 1) : headVector'[i] = headVector[i]
          /\ setting' = setting
      BY <1>2, <2>1, <3>1, <3>2, <3>3
    <3> QED
      BY <2>1, <3>4, SafeStep
  <2> QED
    BY <1>16, <2>2, <2>3, AppendPostingEffect
<1> QED
  BY <1>7, <1>8, <1>9, <1>10, <1>11, <1>12, <1>13, <1>14, <1>15, <1>16

LEMMA ReturnsBears ==
    ASSUME NEW t \in Threads, th[t] \in ThreadStates, Returns(th'[t], th[t]), th[t].pc \in SplitPCs, heads' = heads, NEW e
    PROVE  /\ th'[t].pc \notin {"newhead", "put", "unlink"}
           /\ Bears(th[t], e) => Bears(th[t], e)'
<1>1. CASE th[t].after = "idle"
  <2>1. th'[t] = Idle
    BY <1>1 DEF Returns
  <2>2. ~Bears(th[t], e)
    BY <1>1 DEF Bears, SplitPCs
  <2> QED
    BY <2>1, <2>2, IdleFields
<1>2. CASE th[t].after # "idle"
  <2>1. /\ th'[t].pc = th[t].after /\ th'[t].todo = th[t].todo /\ SameVector(th'[t], th[t])
        /\ th[t].after \in {"append", "next", "gc"}
    BY <1>2 DEF Returns, ThreadStates
  <2> QED
    BY <2>1 DEF Bears, SameVector, SplitPCs
<1> QED
  BY <1>1, <1>2

\* A thread within a split carries its own vector on.
LEMMA SplitBears ==
    ASSUME NEW t \in Threads, th[t].pc \in SplitPCs, th'[t].pc \in SplitPCs,
           th'[t].todo = th[t].todo, SameVector(th'[t], th[t]), SameCall(th'[t], th[t]), NEW v, NEW e, Bears(th[t], e)
    PROVE  Safe(v, e)'
<1>1. Bears(th[t], e)'
  BY DEF Bears, SameVector, SameCall, SplitPCs
<1> QED
  BY <1>1, SafeByThread

\* So do the steps of a split that follow its clusters.
LEMMA SafeSplitEnds ==
    ASSUME Types, FreshInv, Calm, NEW t \in Threads, NEW v \in Vectors, NEW e, e = <<v, version[v]>>, version[v] \in Nat,
           Safe(v, e), SplitHeadGone(t) \/ SplitCollect(t) \/ SplitOneCluster(t) \/ Unlist(t) \/ CollectReAssign(t)
    PROVE  Safe(v, e)'
<1> DEFINE r == th[t]
           q == th'[t]
           Carried == Holds(r, e) \/ Bears(r, e) => Safe(v, e)'
<1>0. r \in ThreadStates /\ ThreadOK(r, version) /\ r.ids \in [1..2 -> HeadRefs]
  BY DEF Types, ThreadStates
<1>1. /\ Moved(t) /\ UNCHANGED <<setting, heads, headVector, nextHead>> /\ r.pc \in {"split", "unlist", "collect"}
      /\ Returns(q, r) \/ (r.pc = "unlist" /\ GoesTo(q, r, "collect"))
  BY SplitHeadGoneEffect, SplitKeepsEffect, UnlistEffect, CollectReAssignEffect
<1>2. q.pc \notin {"newhead", "put", "unlink"} /\ Carried
  <2>1. ~Holds(r, e)
    BY <1>1 DEF Holds
  <2>2. CASE Returns(q, r)
    <3>1. q.pc \notin {"newhead", "put", "unlink"} /\ (Bears(r, e) => Bears(th[t], e)')
      BY <1>0, <1>1, <2>2, ReturnsBears DEF SplitPCs
    <3> QED
      BY <2>1, <3>1, SafeByThread
  <2>3. CASE r.pc = "unlist" /\ GoesTo(q, r, "collect")
    <3>1. Bears(r, e) => Safe(v, e)'
      BY <2>3, SplitBears DEF GoesTo, SplitPCs
    <3> QED
      BY <2>1, <2>3, <3>1 DEF GoesTo
  <2> QED
    BY <1>1, <2>2, <2>3
<1>3. ~Overwrites(q) /\ ~Crowns(r, v)
  BY <1>1, <1>2 DEF Overwrites, Crowns
<1>4. JobSet \subseteq JobSet'
  <2>1. CASE CollectReAssign(t)
    BY <2>1, CollectReAssignEffect
  <2>2. CASE jobs' = jobs
    BY <2>2, JobsSame
  <2> QED
    BY <2>1, <2>2, SplitHeadGoneEffect, SplitKeepsEffect, UnlistEffect
<1>5. ASSUME ExcludeHead, Orphans(r, v) PROVE Safe(v, e)'
  <2>0. r.pc \in {"unlist", "collect"} /\ r.same = 0 /\ r.reassign /\ headVector[r.head] = v
    BY <1>5 DEF Orphans
  <2>1. CASE Unlist(t)
    <3>1. GoesTo(q, r, "collect")
      BY <2>0, <2>1, UnlistEffect
    <3>2. Orphans(th[t], v)'
      BY <1>1, <2>0, <3>1 DEF Orphans, GoesTo, SameCall, SameSplit
    <3>3. ExcludeHead'
      BY <1>1, <1>5 DEF ExcludeHead
    <3> QED
      BY <3>2, <3>3, SafeByThread
  <2>2. CASE CollectReAssign(t)
    <3> DEFINE j == ReassignJob(<<v, version[v]>>, NoHead)
    <3>1. JobSet' = JobSet' \cup Range(HeadVectorJobs(r.head))
      BY <2>0, <2>2, CollectReAssignEffect
    <3>2. r.head \in HeadIds /\ r.pc = "collect"
      BY <1>0, <2>2, CollectReAssignEffect DEF ThreadOK, PlaceInv, SplitPCs
    <3>3. v # NoVector /\ version[v] # DELETED
      BY BoundAssumption DEF DELETED
    <3>4. Range(HeadVectorJobs(r.head)) = {j}
      BY <1>5, <2>0, <3>2, <3>3, HeadVectorJobsAre
    <3>5. j.kind = "reassign" /\ j.entry = e /\ j.prev \notin heads'
      BY <1>1 DEF ReassignJob, NoHead, Types, HeadIds
    <3>6. j \in JobSet'
      BY <3>1, <3>4
    <3> HIDE DEF j
    <3> QED
      BY <3>5, <3>6, SafeByJob
  <2> QED
    BY <2>0, <2>1, <2>2, SplitHeadGoneEffect, SplitKeepsEffect
<1>6. ASSUME NEW h \in heads, e \in posting[h] PROVE e \in posting'[h]
  <2>1. CASE SplitCollect(t) \/ SplitOneCluster(t)
    <3>1. PICK L \in SUBSET Live(r.head) : /\ posting' = [posting EXCEPT ![r.head] = L]
                                           /\ setting.sameVectors \/ L = Live(r.head)
      BY <2>1, SplitKeepsEffect
    <3>2. L = Live(r.head)
      BY <3>1 DEF Calm
    <3>3. h = r.head => e \in Live(r.head)
      BY <1>6 DEF Live, Current
    <3> QED
      BY <1>6, <3>1, <3>2, <3>3 DEF Types
  <2>2. CASE posting' = posting
    BY <1>6, <2>2
  <2> QED
    BY <2>1, <2>2, SplitHeadGoneEffect, UnlistEffect, CollectReAssignEffect
<1>7. /\ \A h \in heads : Solid(h) /\ e \in posting[h] =>
            \/ h \in heads' /\ e \in posting'[h] /\ ~(Overwrites(th'[t]) /\ th'[t].head = h)
            \/ Safe(v, e)'
      /\ Holds(th[t], e) \/ Bears(th[t], e) => Safe(v, e)'
      /\ \A j \in JobSet : j.kind = "reassign" /\ j.entry = e /\ j.prev \notin heads => j \in JobSet' \/ Safe(v, e)'
      /\ ExcludeHead => \A h \in heads : headVector[h] = v => h \in heads' \/ Safe(v, e)'
      /\ ExcludeHead /\ (Crowns(th[t], v) \/ Orphans(th[t], v)) => Safe(v, e)'
      /\ \A i \in Used : i \in heads' => i \in heads
      /\ \A i \in 0..(nextHead - 1) : headVector'[i] = headVector[i]
      /\ setting' = setting
  BY <1>1, <1>2, <1>3, <1>4, <1>5, <1>6
<1> QED
  BY <1>1, <1>7, SafeStep

\* And those between k-means and Unlink, when the version stays.
LEMMA SafeSplitSteps ==
    ASSUME Types, LockInv, FreshInv, CalmInv, Calm, NEW t \in Threads, NEW v \in Vectors, NEW e, e = <<v, version[v]>>,
           version[v] \in Nat, version'[v] = version[v], Safe(v, e),
           SplitTwoClusters(t) \/ KeepHead(t) \/ NewHead(t) \/ PutNewPosting(t) \/ Unlink(t)
    PROVE  Safe(v, e)'
<1> DEFINE r == th[t]
           q == th'[t]
<1>0. /\ r \in ThreadStates /\ ThreadOK(r, version) /\ KeepsCalm(r, heads) /\ r.k \in 1..2 /\ r.same \in 0..2
      /\ r.clusters \in [1..2 -> SUBSET Entries]
  BY DEF Types, CalmInv, ThreadStates
<1>1. /\ Moved(t) /\ setting' = setting /\ r.pc \in {"split", "newhead", "put", "unlink"} /\ q.pc \in SplitPCs
      /\ q.todo = r.todo /\ SameVector(q, r) /\ SameCall(q, r) /\ jobs' = jobs
  <2>1. CASE SplitTwoClusters(t)
    BY <2>1, SplitTwoClustersEffect DEF SplitPCs
  <2>2. CASE KeepHead(t)
    BY <2>2, KeepHeadEffect DEF Advances, SplitPCs
  <2>3. CASE NewHead(t)
    BY <2>3, NewHeadEffect DEF SplitPCs
  <2>4. CASE PutNewPosting(t)
    BY <2>4, PutNewPostingEffect DEF Advances, SplitPCs
  <2>5. CASE Unlink(t)
    BY <2>5, UnlinkEffect DEF GoesTo, SplitPCs
  <2> QED
    BY <2>1, <2>2, <2>3, <2>4, <2>5
<1>2. r.pc \in SplitPCs /\ r.head \in HeadIds /\ q.head = r.head
  BY <1>0, <1>1 DEF SplitPCs, ThreadOK, PlaceInv, SameCall
<1>3. Bears(th[t], e) => Safe(v, e)'
  BY <1>1, <1>2, SplitBears
<1>4. ~Orphans(r, v)
  BY <1>1 DEF Orphans
<1>5. JobSet \subseteq JobSet'
  BY <1>1, JobsSame
<1>6. PICK h \in HeadIds : h = r.head
  BY <1>2
<1>7. ASSUME /\ \A i \in heads : Solid(i) /\ e \in posting[i] =>
                  \/ i \in heads' /\ e \in posting'[i] /\ ~(Overwrites(q) /\ h = i)
                  \/ Safe(v, e)',
             Holds(r, e) => Safe(v, e)',
             ExcludeHead => \A i \in heads : headVector[i] = v => i \in heads' \/ Safe(v, e)',
             ExcludeHead /\ Crowns(r, v) => Safe(v, e)',
             \A i \in Used : i \in heads' => i \in heads,
             \A i \in 0..(nextHead - 1) : headVector'[i] = headVector[i]
      PROVE  Safe(v, e)'
  <2>1. /\ \A i \in heads : Solid(i) /\ e \in posting[i] =>
              \/ i \in heads' /\ e \in posting'[i] /\ ~(Overwrites(th'[t]) /\ th'[t].head = i)
              \/ Safe(v, e)'
        /\ Holds(th[t], e) \/ Bears(th[t], e) => Safe(v, e)'
        /\ \A j \in JobSet : j.kind = "reassign" /\ j.entry = e /\ j.prev \notin heads => j \in JobSet' \/ Safe(v, e)'
        /\ ExcludeHead /\ (Crowns(th[t], v) \/ Orphans(th[t], v)) => Safe(v, e)'
    BY <1>2, <1>3, <1>4, <1>5, <1>6, <1>7
  <2> QED
    BY <1>1, <1>7, <2>1, SafeStep
<1>8. Holds(th'[t], e) => Safe(v, e)'
  BY SafeByThread
<1>9. ASSUME NEW i \in heads, Solid(i) PROVE ~(Overwrites(r) /\ h = i)
  BY <1>6, <1>9 DEF Solid
<1>10. CASE SplitTwoClusters(t)
  <2>1. /\ r.pc = "split" /\ q.pc = "newhead" /\ q.k = 1
        /\ q.clusters[2] = Live(h) \ q.clusters[1] /\ UNCHANGED <<heads, headVector, posting>>
    BY <1>6, <1>10, SplitTwoClustersEffect
  <2>2. ASSUME NEW i \in heads, e \in posting[i], h = i PROVE Safe(v, e)'
    <3>1. e \in Live(h)
      BY <2>2 DEF Live, Current
    <3>2. Holds(q, e)
      BY <2>1, <3>1 DEF Holds
    <3> QED
      BY <1>8, <3>2
  <2>3. ~Holds(r, e) /\ ~Crowns(r, v)
    BY <2>1 DEF Holds, Crowns
  <2> QED
    BY <1>7, <2>1, <2>2, <2>3
<1>11. CASE KeepHead(t)
  <2>1. /\ r.pc = "newhead" /\ r.same = r.k /\ posting' = [posting EXCEPT ![h] = r.clusters[r.k]]
        /\ Advances(q, r) /\ UNCHANGED <<heads, headVector>>
    BY <1>6, <1>11, KeepHeadEffect
  <2>2. Overwrites(r) /\ ~Overwrites(q)
    BY <1>0, <2>1 DEF Overwrites, Advances
  <2>3. h \in heads /\ Held(t, h)
    BY <1>0, <1>6, <2>1, HashRange DEF KeepsCalm, LockInv, Locks, Held
  <2>4. ASSUME Holds(r, e) PROVE Safe(v, e)'
    <3>1. PICK j \in 1..2 : j >= r.k /\ e \in r.clusters[j]
      BY <2>4 DEF Holds
    <3>2. CASE j = r.k
      <4>1. Solid(h)' /\ h \in heads'
        BY <1>1, <2>1, <2>2, <2>3, SolidWhenLocked
      <4>2. e \in posting'[h]
        BY <2>1, <3>1, <3>2 DEF Types
      <4> QED
        BY <4>1, <4>2, SafeByPosting
    <3>3. CASE j # r.k
      <4>1. r.k = 1 /\ j = 2
        BY <1>0, <3>1, <3>3
      <4>2. Holds(q, e)
        BY <2>1, <3>1, <4>1 DEF Holds, Advances
      <4> QED
        BY <1>8, <4>2
    <3> QED
      BY <3>2, <3>3
  <2>5. ASSUME NEW i \in heads, Solid(i), e \in posting[i] PROVE e \in posting'[i]
    <3>1. i # h
      BY <1>9, <2>2, <2>5
    <3> QED
      BY <2>1, <2>5, <3>1 DEF Types
  <2>6. ~Crowns(r, v)
    BY <2>1 DEF Crowns
  <2> QED
    BY <1>7, <2>1, <2>2, <2>4, <2>5, <2>6
<1>12. CASE NewHead(t)
  <2>1. /\ r.pc = "newhead" /\ q.pc = "put" /\ q.k = r.k /\ q.clusters = r.clusters /\ q.same = r.same
        /\ UNCHANGED <<heads, posting>> /\ r.same # r.k
        /\ headVector' = headVector \/ (\E w : headVector' = [headVector EXCEPT ![nextHead] = w])
    BY <1>12, NewHeadEffect
  <2>2. /\ Overwrites(q) => Overwrites(r)
        /\ Holds(r, e) => Holds(q, e)
        /\ ~Crowns(r, v)
    BY <2>1 DEF Overwrites, Holds, Crowns
  <2>3. \A i \in 0..(nextHead - 1) : headVector'[i] = headVector[i]
    <3>1. headVector \in [HeadIds -> Vectors \cup {NoVector}] /\ nextHead \in HeadIds
      BY <1>12, NewHeadEffect DEF Types
    <3>2. \A i \in HeadIds : i # nextHead => headVector'[i] = headVector[i]
      BY <2>1, <3>1
    <3> QED
      BY <3>1, <3>2, BoundAssumption DEF HeadIds
  <2> QED
    BY <1>7, <1>8, <1>9, <2>1, <2>2, <2>3
<1>13. CASE PutNewPosting(t)
  <2>1. PICK n \in HeadIds : n = Pending(t)
    BY <1>13, PutNewPostingEffect DEF Pending
  <2>2. /\ r.pc = "put" /\ posting' = [posting EXCEPT ![n] = r.clusters[r.k]] /\ heads' = heads \cup {n}
        /\ Advances(q, r) /\ headVector' = headVector
    BY <1>13, <2>1, PutNewPostingEffect DEF Pending
  <2>3. n \notin Used
    BY <2>1, <2>2 DEF FreshInv
  <2>4. \A u \in Threads : th[u].pc # "gc" => th[u].head # n
    BY <2>3 DEF Used, Refers
  <2>5. Overwrites(q) => Overwrites(r)
    BY <1>0, <2>2 DEF Overwrites, Advances
  <2>6. Solid(n)'
    <3>1. ASSUME NEW u \in Threads, Overwrites(th'[u]) PROVE th'[u].head # n
      <4>1. CASE u = t
        BY <1>2, <2>2, <2>4, <4>1
      <4>2. CASE u # t
        <5>1. th'[u] = th[u] /\ th[u].pc # "gc"
          BY <1>1, <3>1, <4>2 DEF Moved, Overwrites
        <5> QED
          BY <2>4, <5>1
      <4> QED
        BY <4>1, <4>2
    <3> QED
      BY <2>2, <3>1 DEF Solid
  <2>7. ASSUME Holds(r, e) PROVE Safe(v, e)'
    <3>1. PICK j \in 1..2 : j >= r.k /\ e \in r.clusters[j]
      BY <2>7 DEF Holds
    <3>2. CASE j = r.k
      <4>1. e \in posting'[n] /\ n \in heads'
        BY <2>2, <3>1, <3>2 DEF Types
      <4> QED
        BY <2>6, <4>1, SafeByPosting
    <3>3. CASE j # r.k
      <4>1. r.k = 1 /\ j = 2
        BY <1>0, <3>1, <3>3
      <4>2. Holds(q, e)
        BY <2>2, <3>1, <4>1 DEF Holds, Advances
      <4> QED
        BY <1>8, <4>2
    <3> QED
      BY <3>2, <3>3
  <2>8. ASSUME NEW i \in heads, e \in posting[i] PROVE e \in posting'[i] /\ i \in heads'
    <3>1. i # n
      BY <2>3 DEF Used
    <3> QED
      BY <2>2, <2>8, <3>1 DEF Types
  <2>9. ASSUME ExcludeHead, Crowns(r, v) PROVE Safe(v, e)'
    <3>1. headVector'[n] = v /\ n \in heads' /\ ExcludeHead'
      BY <1>1, <2>1, <2>2, <2>9 DEF Crowns, Pending, ExcludeHead
    <3> QED
      BY <3>1, SafeByHead
  <2>10. \A i \in Used : i \in heads' => i \in heads
    BY <2>2, <2>3
  <2> QED
    BY <1>7, <1>9, <2>2, <2>5, <2>7, <2>8, <2>9, <2>10
<1>14. CASE Unlink(t)
  <2>1. /\ r.pc = "unlink" /\ GoesTo(q, r, "unlist") /\ headVector' = headVector
        /\ \/ r.same = 0 /\ heads' = heads \ {h} /\ posting' = [posting EXCEPT ![h] = {}]
           \/ UNCHANGED <<heads, posting>>
    BY <1>6, <1>14, UnlinkEffect
  <2>2. ~Overwrites(q) /\ ~Holds(r, e) /\ ~Crowns(r, v)
    BY <2>1 DEF Overwrites, Holds, Crowns, GoesTo
  <2>3. ASSUME NEW i \in heads, Solid(i), e \in posting[i] PROVE e \in posting'[i] /\ i \in heads'
    <3>1. CASE UNCHANGED <<heads, posting>>
      BY <2>3, <3>1
    <3>2. CASE r.same = 0 /\ heads' = heads \ {h} /\ posting' = [posting EXCEPT ![h] = {}]
      <4>1. i # h
        BY <1>9, <2>1, <2>3, <3>2 DEF Overwrites
      <4> QED
        BY <2>3, <3>2, <4>1 DEF Types
    <3> QED
      BY <2>1, <3>1, <3>2
  <2>4. ASSUME ExcludeHead, NEW i \in heads, headVector[i] = v, i \notin heads' PROVE Safe(v, e)'
    <3>1. r.same = 0 /\ i = h
      BY <2>1, <2>4
    <3>2. r.reassign
      BY <1>0, <1>2, <2>4 DEF KeepsCalm, NoGC, Calm
    <3>3. headVector'[q.head] = v /\ q.same = 0 /\ q.reassign /\ q.pc = "unlist"
      BY <1>2, <1>6, <2>1, <2>4, <3>1, <3>2 DEF GoesTo, SameSplit, SameCall
    <3>4. Orphans(th[t], v)'
      BY <3>3 DEF Orphans
    <3>5. ExcludeHead'
      BY <1>1, <2>4 DEF ExcludeHead
    <3> QED
      BY <3>4, <3>5, SafeByThread
  <2>5. heads' \subseteq heads
    BY <2>1
  <2> QED
    BY <1>7, <2>1, <2>2, <2>3, <2>4, <2>5
<1> QED
  BY <1>10, <1>11, <1>12, <1>13, <1>14

\* A step that gives a vector a new version keeps the new entry safe.
LEMMA SafeChange ==
    ASSUME Types, CalmInv, NEW t \in Threads, ClientStep(t) \/ Work(t), NEW v \in Vectors, NEW e,
           e = <<v, version'[v]>>, version'[v] # version[v], version'[v] >= 0
    PROVE  Safe(v, e)'
<1> DEFINE r == th[t]
           q == th'[t]
<1>1. Bears(th[t], e)' => Safe(v, e)'
  BY SafeByThread
<1>2. ASSUME NEW w \in Vectors, AddIndex(t, w) PROVE Safe(v, e)'
  <2>1. version' = [version EXCEPT ![w] = 0] /\ q.pc = "next" /\ q.vid = w /\ q.ver = 0 /\ q.todo # {}
    BY <1>2, AddIndexEffect
  <2>2. v = w /\ version'[v] = 0
    BY <2>1 DEF Types
  <2>3. Bears(th[t], e)'
    BY <2>1, <2>2 DEF Bears
  <2> QED
    BY <1>1, <2>3
<1>3. ASSUME NEW w \in Vectors, DeleteIndex(t, w) PROVE FALSE
  <2>1. version' = [version EXCEPT ![w] = DELETED]
    BY <1>3, DeleteIndexEffect
  <2> QED
    BY <2>1 DEF Types, DELETED
<1>4. CASE Increment(t)
  <2>1. \/ version' = version
        \/ /\ version' = [version EXCEPT ![r.vid] = @ + 1] /\ r.pc = "increment"
           /\ q.pc = "next" /\ q.vid = r.vid /\ q.ver = version[r.vid] + 1 /\ q.todo = r.todo
    BY <1>4, IncrementEffect
  <2>2. v = r.vid /\ version'[v] = version[v] + 1
    BY <2>1 DEF Types
  <2>3. r.todo # {}
    BY <2>1 DEF CalmInv, KeepsCalm
  <2>4. Bears(th[t], e)'
    BY <2>1, <2>2, <2>3 DEF Bears
  <2> QED
    BY <1>1, <2>4
<1>5. CASE NewHead(t)
  <2>1. /\ q.pc = "put" /\ q.ids = [r.ids EXCEPT ![r.k] = nextHead] /\ q.k = r.k /\ nextHead \in HeadIds
        /\ setting' = setting
        /\ \/ /\ ExcludeHead
              /\ \E d \in r.clusters[r.k] :
                   /\ headVector' = [headVector EXCEPT ![nextHead] = d[1]]
                   /\ version' = [version EXCEPT ![d[1]] = IF @ = DELETED THEN @ ELSE @ + 1]
           \/ version' = version
    BY <1>5, NewHeadEffect
  <2>2. PICK d \in r.clusters[r.k] : /\ headVector' = [headVector EXCEPT ![nextHead] = d[1]]
                                     /\ version' = [version EXCEPT ![d[1]] = IF @ = DELETED THEN @ ELSE @ + 1]
    BY <2>1
  <2>3. v = d[1] /\ ExcludeHead /\ ExcludeHead'
    BY <2>1, <2>2 DEF Types, ExcludeHead
  <2>4. q.ids[q.k] = nextHead
    BY <2>1 DEF Types, ThreadStates
  <2>5. headVector'[nextHead] = v
    BY <2>1, <2>2, <2>3 DEF Types
  <2>6. Crowns(th[t], v)'
    BY <2>1, <2>4, <2>5 DEF Crowns
  <2> QED
    BY <2>3, <2>6, SafeByThread
<1>6. (\E w \in Vectors : AddIndex(t, w) \/ DeleteIndex(t, w)) \/ Increment(t) \/ NewHead(t)
  <2>1. ASSUME ClientStep(t), version' # version PROVE \E w \in Vectors : AddIndex(t, w) \/ DeleteIndex(t, w)
    BY <2>1 DEF ClientStep, SearchIndex, ForceGC
  <2>2. ASSUME Work(t), version' # version PROVE Increment(t) \/ NewHead(t)
    BY <2>2 DEF Work, TakeJob, CollectNext, NextSelection, HeadMiss, AppendPosting, CheckSize, SelectHeads,
       RecheckVersion, SplitHeadGone, SplitCollect, SplitOneCluster, SplitTwoClusters, KeepHead, PutNewPosting,
       Unlink, Unlist, CollectReAssign, MergeBusy, MergeStart, MergeHeadGone, MergeNotNeeded, MergeRead,
       MergePick, MergeOtherGone, MergeWith, MergeNoNeighbour, MergeReassign
  <2> QED
    BY <2>1, <2>2
<1> QED
  BY <1>2, <1>3, <1>4, <1>5, <1>6

LEMMA SettingStays ==
    ASSUME NEW t \in Threads, ClientStep(t) \/ Work(t)
    PROVE  setting' = setting
<1>1. ASSUME ClientStep(t) PROVE setting' = setting
  BY <1>1 DEF ClientStep, AddIndex, DeleteIndex, SearchIndex, ForceGC, budgets
<1>2. ASSUME Work(t) PROVE setting' = setting
  BY <1>2 DEF Work, TakeJob, CollectNext, NextSelection, HeadMiss, AppendPosting, CheckSize, SelectHeads,
     RecheckVersion, Increment, SplitHeadGone, SplitCollect, SplitOneCluster, SplitTwoClusters, KeepHead, NewHead,
     PutNewPosting, Unlink, Unlist, CollectReAssign, MergeBusy, MergeStart, MergeHeadGone, MergeNotNeeded, MergeRead,
     MergePick, MergeOtherGone, MergeWith, MergeNoNeighbour, MergeReassign, budgets
<1> QED
  BY <1>1, <1>2

\* Without searches that find a short posting no thread merges.
LEMMA NothingMerges ==
    ASSUME Types, MergeFree, NoMerges, NEW t \in Threads
    PROVE  /\ \A h \in HeadIds : ~SearchIndex(t, h)
           /\ ~(\/ MergeBusy(t) \/ MergeStart(t) \/ MergeHeadGone(t) \/ MergeNotNeeded(t) \/ MergeRead(t)
                \/ (\E o \in HeadIds : MergePick(t, o)) \/ MergeOtherGone(t) \/ MergeWith(t) \/ MergeNoNeighbour(t)
                \/ MergeReassign(t))
<1>1. searches = 0 /\ setting.searches = 0 /\ th[t].pc \notin MergePCs
  BY DEF MergeFree, NoMerges
<1>2. \A h \in HeadIds : ~SearchIndex(t, h)
  BY <1>1 DEF SearchIndex
<1> QED
  BY <1>1, <1>2 DEF MergePCs, MergeBusy, MergeStart, MergeHeadGone, MergeNotNeeded, MergeRead, MergePick,
     MergeOtherGone, MergeWith, MergeNoNeighbour, MergeReassign

LEMMA SafeNext ==
    ASSUME Types, LockInv, FreshInv, MergeFree, CalmInv, SafeInv, [Next]_vars
    PROVE  SafeInv'
<1>1. CASE Next
  <2>1. PICK t \in Threads : ClientStep(t) \/ Work(t)
    BY <1>1 DEF Next
  <2>2. setting' = setting
    BY <2>1, SettingStays
  <2>3. SUFFICES ASSUME Calm, NEW v \in Vectors, version'[v] >= 0, NEW e, e = <<v, version'[v]>>
                 PROVE  Safe(v, e)'
    <3>1. Calm' <=> Calm
      BY <2>2 DEF Calm, NoMerges, ExcludeHead
    <3> QED
      BY <2>3, <3>1 DEF SafeInv, Safe, Holds, Bears
  <2>4. CASE version'[v] # version[v]
    BY <2>1, <2>3, <2>4, SafeChange
  <2>5. CASE version'[v] = version[v]
    <3>1. version[v] \in Nat /\ e = <<v, version[v]>>
      BY <2>3, <2>5 DEF Types, DELETED, UNKNOWN
    <3>2. Safe(v, e)
      BY <2>3, <3>1 DEF SafeInv
    <3>3. NoMerges
      BY <2>3 DEF Calm
    <3>4. \/ (\E w \in Vectors : AddIndex(t, w) \/ DeleteIndex(t, w)) \/ ForceGC(t) \/ TakeJob(t) \/ CollectNext(t)
          \/ NextSelection(t) \/ HeadMiss(t) \/ AppendPosting(t) \/ CheckSize(t)
          \/ SelectHeads(t) \/ RecheckVersion(t) \/ Increment(t)
          \/ SplitHeadGone(t) \/ SplitCollect(t) \/ SplitOneCluster(t) \/ SplitTwoClusters(t)
          \/ KeepHead(t) \/ NewHead(t) \/ PutNewPosting(t) \/ Unlink(t) \/ Unlist(t) \/ CollectReAssign(t)
      BY <2>1, <3>3, NothingMerges DEF ClientStep, Work
    <3>5. CASE \/ (\E w \in Vectors : AddIndex(t, w) \/ DeleteIndex(t, w)) \/ ForceGC(t) \/ TakeJob(t) \/ CollectNext(t)
               \/ NextSelection(t) \/ HeadMiss(t) \/ AppendPosting(t) \/ CheckSize(t)
               \/ SelectHeads(t) \/ RecheckVersion(t) \/ Increment(t)
      BY <2>5, <3>1, <3>2, <3>5, SafeAppend
    <3>6. CASE SplitHeadGone(t) \/ SplitCollect(t) \/ SplitOneCluster(t) \/ Unlist(t) \/ CollectReAssign(t)
      BY <2>3, <3>1, <3>2, <3>6, SafeSplitEnds
    <3>7. CASE SplitTwoClusters(t) \/ KeepHead(t) \/ NewHead(t) \/ PutNewPosting(t) \/ Unlink(t)
      BY <2>3, <2>5, <3>1, <3>2, <3>7, SafeSplitSteps
    <3> QED
      BY <3>4, <3>5, <3>6, <3>7
  <2> QED
    BY <2>4, <2>5
<1>2. CASE UNCHANGED vars
  BY SMTT(20), <1>2 DEF vars, SafeInv, Calm, NoMerges, Safe, Solid, Holds, Bears, Crowns, Orphans, JobSet, ExcludeHead
<1> QED
  BY <1>1, <1>2

LEMMA SafeInit == Init => SafeInv
<1> SUFFICES ASSUME Init, NEW v \in Vectors, version[v] >= 0
             PROVE  Safe(v, <<v, version[v]>>)
  BY DEF SafeInv
<1>1. /\ heads = 0..1 /\ 0..1 \subseteq HeadIds
      /\ posting = [h \in HeadIds |-> IF h \in 0..1 THEN setting.posting[h] \X {0} ELSE {}]
      /\ headVector = [h \in HeadIds |-> IF h \in 0..1 THEN setting.headVector[h] ELSE NoVector]
  BY TypesInit DEF Init, Types
<1>2. PICK h \in 0..1 : v \in setting.posting[h] \/ v = setting.headVector[h]
  BY DEF Init, UNKNOWN
<1>3. version[v] = 0
  BY <1>2 DEF Init
<1>4. CASE v \in setting.posting[h]
  <2>1. Solid(h)
    BY <1>1, IdleFields DEF Init, Solid, Overwrites
  <2>2. <<v, version[v]>> \in posting[h]
    BY <1>1, <1>3, <1>4
  <2> QED
    BY <1>1, <2>1, <2>2 DEF Safe
<1>5. CASE v = setting.headVector[h]
  <2>1. ExcludeHead
    BY <1>5, SettingsAssumption, BoundAssumption DEF Init, ExcludeHead
  <2>2. h \in heads /\ headVector[h] = v
    BY <1>1, <1>5
  <2> QED
    BY <2>1, <2>2 DEF Safe
<1> QED
  BY <1>2, <1>4, <1>5

\* When the jobs are done, what keeps a vector safe is a copy in the store.
LEMMA QuietIsStored ==
    ASSUME Types, SafeInv, Calm
    PROVE  NoVectorLost
<1> SUFFICES ASSUME Quiet, NEW v \in Vectors, version[v] >= 0
             PROVE  Stored(v)
  BY DEF NoVectorLost
<1>1. Safe(v, <<v, version[v]>>)
  BY DEF SafeInv
<1>2. JobSet = {}
  BY DEF Quiet, JobSet
<1>3. \A t \in Threads : th[t].pc = "idle"
  BY DEF Quiet
<1>4. \A t \in Threads : /\ ~Holds(th[t], <<v, version[v]>>) /\ ~Bears(th[t], <<v, version[v]>>)
                         /\ ~Crowns(th[t], v) /\ ~Orphans(th[t], v)
  BY <1>3 DEF Holds, Bears, Crowns, Orphans, SplitPCs
<1> QED
  BY <1>1, <1>2, <1>4 DEF Safe, Stored

\* Between a split and its reassignments, in the queue, or in the store: at every
\* instant some thread, job or posting has the current entry of each vector that
\* AddIndex has added and DeleteIndex has not deleted.
THEOREM EveryVectorIsSafe == Spec => [](CalmInv /\ SafeInv)
<1>1. Init => CalmInv /\ SafeInv
  BY CalmInit, SafeInit
<1>2. Types /\ LockInv /\ FreshInv /\ BoundInv /\ (CalmInv /\ SafeInv) /\ [Next]_vars => (CalmInv /\ SafeInv)'
  BY CalmNext, SafeNext DEF BoundInv
<1> QED
  BY <1>1, <1>2, LocksAndListsHold, BoundsHold, PTL DEF Spec

\* Append, Split and Reassign lose no vector and leave nothing behind, as AllFinished,
\* Checkpoint and Save take for granted: with any threads, heads, locks and interleaving,
\* as long as no search asks for a merge, k-means parts the vectors and, when heads are
\* vectors, ForceGC does not split without reassigning.
THEOREM UpdatesAreSound == Spec => [](Calm => UpdatesSound)
<1>1. Types /\ SafeInv => (Calm => NoVectorLost)
  BY QuietIsStored
<1>2. TypeOK /\ (Calm => NoVectorLost) /\ NothingLeftBehind => (Calm => UpdatesSound)
  BY DEF UpdatesSound
<1> QED
  BY <1>1, <1>2, TypesHold, TypeCorrect, NothingIsLeftBehind, EveryVectorIsSafe, PTL
=============================================================================
