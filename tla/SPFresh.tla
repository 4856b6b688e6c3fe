------------------------------ MODULE SPFresh ------------------------------
(***************************************************************************)
(* The update protocol of ExtraDynamicSearcher                             *)
(* (AnnService/inc/Core/SPANN/ExtraDynamicSearcher.h), called LIRE in the  *)
(* SPFresh paper: vectors are appended to the postings of the heads next   *)
(* to them, a posting that grows too long is split under two new heads, a  *)
(* posting that shrinks is merged into a neighbour, and vectors that may   *)
(* now be closer to another head are reassigned.  Client threads add,      *)
(* delete, search and collect garbage; the workers of m_splitThreadPool    *)
(* run the split, merge and reassign jobs.                                 *)
(*                                                                         *)
(* Abstractions.  Geometry is a free choice: RNGSelection returns any      *)
(* nonempty set of up to Replicas heads, k-means any partition, distances  *)
(* any verdict.  A posting is the set of <<vector, version>> it holds (no  *)
(* step adds a pair twice).  Versions count up from 0; the 7-bit byte and  *)
(* its races are VersionLabel's subject.  Reads and writes of postings do  *)
(* not fail (FileIO has the store), asynchronous appends are off and       *)
(* ReassignK is 0, as in the default configuration.                        *)
(***************************************************************************)
EXTENDS Integers, Sequences, FiniteSets

CONSTANTS
    Clients, Workers,   \* the threads of callers and of the job pool
    Vectors,            \* the vector ids that may ever exist
    MaxHeads,           \* bound: head ids are 0..MaxHeads-1
    ReassignThreshold,  \* the 3 in Reassign's Append
    PoolSize,           \* the number of locks m_rwLocks hashes heads to
    MaxVersion,         \* bound: no optional reassign beyond this version
    NoVector,           \* MaxSize in m_vectorTranslateMap
    Settings,           \* the settings under which the index may run
    None                \* no thread

Threads == Clients \cup Workers
HeadIds == 0..(MaxHeads - 1)
NoHead == -1

DELETED == -1
UNKNOWN == -2

\* A setting: the options of the index (m_opt), the index as it was built,
\* and bounds on what happens to it.
Setting ==
    [excludeHead : BOOLEAN,        \* m_excludehead: a head's own vector is in no posting
     limit : Nat \ {0},            \* m_postingSizeLimit
     buffer : Nat,                 \* m_bufferSizeLimit
     mergeThreshold : Nat,         \* m_mergeThreshold
     replicas : Nat \ {0},         \* m_replicaCount
     posting : [0..1 -> SUBSET Vectors],               \* the postings of the two built heads
     headVector : [0..1 -> Vectors \cup {NoVector}],   \* the vectors they stand for
     sameVectors : BOOLEAN,        \* can k-means find a single cluster?
     workers : SUBSET Workers,     \* bound: the threads of the pool
     vectors : SUBSET Vectors,     \* bound: the vectors clients add
     deletable : SUBSET Vectors,   \* bound: the vectors clients delete
     heads : 2..MaxHeads,          \* bound: heads ever created
     reassigns : Nat,              \* bound: vectors one split or merge reassigns by choice
     searches : Nat,               \* bound: searches that find a short posting
     collections : Nat]            \* bound: calls of ForceGC

ASSUME ThreadAssumption == None \notin Threads /\ Clients \cap Workers = {}
ASSUME BoundAssumption == /\ MaxHeads \in Nat /\ MaxVersion \in Nat
                          /\ ReassignThreshold \in Nat \ {0} /\ PoolSize \in Nat \ {0}
                          /\ NoVector \notin Vectors /\ IsFiniteSet(Vectors)
ASSUME SettingsAssumption ==
    \A s \in Settings : /\ s \in Setting
                        /\ \A h \in 0..1 :
                             /\ Cardinality(s.posting[h]) <= s.limit
                             /\ ~s.excludeHead => s.headVector[h] = NoVector

VARIABLES
    setting,     \* the setting of this run, never changed
    heads,       \* head ids the head index contains
    nextHead,    \* GetNumSamples of the head index: the next id
    posting,     \* the store: the posting of each head id
    keys,        \* the head ids that have a posting in the store
    headVector,  \* m_vectorTranslateMap
    version,     \* the version map
    jobs,        \* the queue of m_splitThreadPool
    lock,        \* m_rwLocks
    mergeLock,   \* m_mergeLock
    splitList, mergeList,   \* m_splitList, m_mergeList: heads with a job
    th,          \* each thread's place and locals
    searches, collections   \* what is used of the budgets

vars == <<setting, heads, nextHead, posting, keys, headVector, version, jobs, lock, mergeLock,
          splitList, mergeList, th, searches, collections>>
store == <<posting, keys>>
index == <<heads, nextHead, headVector>>
lists == <<splitList, mergeList>>
budgets == <<setting, searches, collections>>

ExcludeHead == setting.excludeHead
Limit == setting.limit
Buffer == setting.buffer
MergeThreshold == setting.mergeThreshold
Replicas == setting.replicas

Hash(h) == h % PoolSize
Size(h) == Cardinality(posting[h])
Current(e) == version[e[1]] = e[2]
Live(h) == {e \in posting[h] : Current(e)}
UpTo(n, S) == {T \in SUBSET S : Cardinality(T) <= n}

\* jobs
SplitJob(h) == [kind |-> "split", head |-> h]
MergeJob(h, disable) == [kind |-> "merge", head |-> h, disable |-> disable]
ReassignJob(e, prev) == [kind |-> "reassign", entry |-> e, prev |-> prev]

\* The orders of a set of jobs.
Orders(js) == {q \in [1..Cardinality(js) -> js] : \A i, j \in DOMAIN q : q[i] = q[j] => i = j}

Idle == [pc |-> "idle", vid |-> NoVector, ver |-> 0, prev |-> NoHead, todo |-> {}, threshold |-> 0,
         head |-> NoHead, after |-> "idle", reassign |-> TRUE, clusters |-> <<{}, {}>>,
         ids |-> <<NoHead, NoHead>>, same |-> 0, k |-> 1, current |-> {}, survivor |-> NoHead]

PCs == {"idle", "next", "append", "sized", "reassign", "bump", "increment", "split", "newhead", "put", "unlink",
        "unlist", "collect", "gc", "merge", "mergelock", "mergewith", "mergeother", "mergereassign"}

\* Where the thread goes on, with the given locals changed.
Goto(t, pc) == th' = [th EXCEPT ![t].pc = pc]
Finish(t) == th' = [th EXCEPT ![t] = Idle]
Free(h) == lock[Hash(h)] = None
Held(t, h) == lock[Hash(h)] = t
Acquire(t, h) == lock' = [lock EXCEPT ![Hash(h)] = t]
Release(h) == lock' = [lock EXCEPT ![Hash(h)] = None]

Init ==
    /\ setting \in Settings
    /\ heads = 0..1
    /\ nextHead = 2
    /\ posting = [h \in HeadIds |-> IF h \in 0..1 THEN setting.posting[h] \X {0} ELSE {}]
    /\ keys = 0..1
    /\ headVector = [h \in HeadIds |-> IF h \in 0..1 THEN setting.headVector[h] ELSE NoVector]
    /\ version = [v \in Vectors |->
                    IF \E h \in 0..1 : v \in setting.posting[h] \/ v = setting.headVector[h]
                      THEN 0 ELSE UNKNOWN]
    /\ jobs = <<>>
    /\ lock = [i \in 0..(PoolSize - 1) |-> None]
    /\ mergeLock = None
    /\ splitList = {} /\ mergeList = {}
    /\ th = [t \in Threads |-> Idle]
    /\ searches = 0 /\ collections = 0

(***************************************************************************)
(* Callers.                                                                *)
(***************************************************************************)
Selections == {S \in UpTo(Replicas, heads) : S # {}}

AddIndex(t, v) ==
    /\ t \in Clients /\ th[t].pc = "idle"
    /\ v \in setting.vectors /\ version[v] = UNKNOWN
    /\ version' = [version EXCEPT ![v] = 0]
    /\ \E S \in Selections :
         th' = [th EXCEPT ![t] = [Idle EXCEPT !.pc = "next", !.vid = v, !.todo = S]]
    /\ UNCHANGED <<index, store, jobs, lock, mergeLock, lists, budgets>>

DeleteIndex(t, v) ==
    /\ t \in Clients /\ th[t].pc = "idle"
    /\ v \in setting.deletable /\ version[v] >= 0
    /\ version' = [version EXCEPT ![v] = DELETED]
    /\ UNCHANGED <<index, store, jobs, lock, mergeLock, lists, th, budgets>>

\* SearchIndex counts the vectors that are not deleted, stale copies included,
\* and calls MergeAsync for a posting it finds short.
SearchIndex(t, h) ==
    /\ t \in Clients /\ th[t].pc = "idle"
    /\ searches < setting.searches
    /\ h \in heads
    /\ Cardinality({e \in posting[h] : version[e[1]] # DELETED}) <= MergeThreshold
    /\ h \notin mergeList
    /\ mergeList' = mergeList \cup {h}
    /\ jobs' = Append(jobs, MergeJob(h, FALSE))
    /\ searches' = searches + 1
    /\ UNCHANGED <<index, store, version, lock, mergeLock, splitList, th, setting, collections>>

ForceGC(t) ==
    /\ t \in Clients /\ th[t].pc = "idle"
    /\ collections < setting.collections
    /\ collections' = collections + 1
    /\ th' = [th EXCEPT ![t] = [Idle EXCEPT !.pc = "gc"]]
    /\ UNCHANGED <<index, store, version, jobs, lock, mergeLock, lists, setting, searches>>

\* The loop over the ids of the head index; ForceGC splits without reassigning.
\* (A head whose posting is not written yet is skipped: reading it fails.)
CollectNext(t) ==
    /\ th[t].pc = "gc"
    /\ LET i == th[t].head + 1 IN
         th' = [th EXCEPT ![t] =
                  IF i >= nextHead THEN Idle
                  ELSE [Idle EXCEPT !.head = i, !.after = "gc", !.reassign = FALSE,
                                    !.pc = IF i \in heads THEN "split" ELSE "gc"]]
    /\ UNCHANGED <<index, store, version, jobs, lock, mergeLock, lists, budgets>>

(***************************************************************************)
(* Workers take a job.                                                     *)
(***************************************************************************)
TakeJob(t) ==
    /\ t \in setting.workers /\ th[t].pc = "idle"
    /\ jobs # <<>>
    /\ jobs' = Tail(jobs)
    /\ LET j == Head(jobs) IN
         th' = [th EXCEPT ![t] =
           CASE j.kind = "split" -> [Idle EXCEPT !.pc = "split", !.head = j.head]
             [] j.kind = "merge" -> [Idle EXCEPT !.pc = "merge", !.head = j.head,
                                                 !.reassign = ~j.disable]
             [] j.kind = "reassign" -> [Idle EXCEPT !.pc = "reassign", !.vid = j.entry[1],
                                                    !.ver = j.entry[2], !.prev = j.prev,
                                                    !.threshold = ReassignThreshold]]
    /\ UNCHANGED <<index, store, version, lock, mergeLock, lists, budgets>>

(***************************************************************************)
(* Append: the loops of AddIndex and Reassign over the selected heads.     *)
(* Reassign stops when somebody else has given the vector a new version.   *)
(***************************************************************************)
NextSelection(t) ==
    /\ th[t].pc = "next"
    /\ IF th[t].todo = {} \/ (th[t].threshold > 0 /\ version[th[t].vid] # th[t].ver)
         THEN Finish(t)
         ELSE \E h \in th[t].todo :
                th' = [th EXCEPT ![t].pc = "append", ![t].head = h, ![t].todo = @ \ {h}]
    /\ UNCHANGED <<index, store, version, jobs, lock, mergeLock, lists, budgets>>

\* The head is gone: the vector is reassigned, unless it has a newer version.
HeadMiss(t) ==
    /\ th[t].pc = "append"
    /\ th[t].head \notin heads
    /\ jobs' = IF version[th[t].vid] = th[t].ver
                 THEN Append(jobs, ReassignJob(<<th[t].vid, th[t].ver>>, th[t].head))
                 ELSE jobs
    /\ Goto(t, "next")
    /\ UNCHANGED <<index, store, version, lock, mergeLock, lists, budgets>>

\* The vector to append is not counted.
AppendPosting_OffByOne(t) ==
    LET h == th[t].head IN
    /\ th[t].pc = "append"
    /\ h \in heads /\ Free(h)
    /\ IF Size(h) > Limit + Buffer
         THEN \* split now, under the lock that is held, and try again
              /\ Acquire(t, h)
              /\ th' = [th EXCEPT ![t].pc = "split", ![t].after = "append", ![t].reassign = TRUE]
              /\ UNCHANGED posting
         ELSE /\ posting' = [posting EXCEPT ![h] = @ \cup {<<th[t].vid, th[t].ver>>}]
              /\ Goto(t, "sized")
              /\ UNCHANGED lock
    /\ UNCHANGED <<index, keys, version, jobs, mergeLock, lists, budgets>>

AppendPosting(t) ==
    LET h == th[t].head IN
    /\ th[t].pc = "append"
    /\ h \in heads /\ Free(h)
    /\ IF Size(h) + 1 > Limit + Buffer
         THEN \* split now, under the lock that is held, and try again
              /\ Acquire(t, h)
              /\ th' = [th EXCEPT ![t].pc = "split", ![t].after = "append", ![t].reassign = TRUE]
              /\ UNCHANGED posting
         ELSE /\ posting' = [posting EXCEPT ![h] = @ \cup {<<th[t].vid, th[t].ver>>}]
              /\ Goto(t, "sized")
              /\ UNCHANGED lock
    /\ UNCHANGED <<index, keys, version, jobs, mergeLock, lists, budgets>>

\* After the unlock: SplitAsync for an insertion, Split here for a reassign.
CheckSize(t) ==
    LET h == th[t].head
        long == Size(h) > Limit + th[t].threshold
    IN
    /\ th[t].pc = "sized"
    /\ IF long /\ th[t].threshold > 0
         THEN /\ th' = [th EXCEPT ![t].pc = "split", ![t].after = "next", ![t].reassign = TRUE]
              /\ UNCHANGED <<jobs, splitList>>
         ELSE /\ Goto(t, "next")
              /\ IF long /\ h \notin splitList
                   THEN /\ splitList' = splitList \cup {h}
                        /\ jobs' = Append(jobs, SplitJob(h))
                   ELSE UNCHANGED <<jobs, splitList>>
    /\ UNCHANGED <<index, store, version, lock, mergeLock, mergeList, budgets>>

(***************************************************************************)
(* Reassign: check, select, check again, take a new version, append.       *)
(***************************************************************************)
SelectHeads(t) ==
    /\ th[t].pc = "reassign"
    /\ IF version[th[t].vid] # th[t].ver
         THEN Finish(t)
         ELSE \E S \in Selections :
                IF th[t].prev \in S
                  THEN Finish(t)
                  ELSE th' = [th EXCEPT ![t].pc = "bump", ![t].todo = S]
    /\ UNCHANGED <<index, store, version, jobs, lock, mergeLock, lists, budgets>>

\* The second check and IncVersion are two steps; a deleted vector keeps its mark.
RecheckVersion(t) ==
    /\ th[t].pc = "bump"
    /\ IF version[th[t].vid] = th[t].ver
         THEN Goto(t, "increment")
         ELSE Finish(t)
    /\ UNCHANGED <<index, store, version, jobs, lock, mergeLock, lists, budgets>>

Increment(t) ==
    LET v == th[t].vid IN
    /\ th[t].pc = "increment"
    /\ IF version[v] = DELETED
         THEN /\ Goto(t, "next")
              /\ UNCHANGED version
         ELSE /\ version' = [version EXCEPT ![v] = @ + 1]
              /\ th' = [th EXCEPT ![t].pc = "next", ![t].ver = version[v] + 1]
    /\ UNCHANGED <<index, store, jobs, lock, mergeLock, lists, budgets>>

(***************************************************************************)
(* Split.                                                                  *)
(***************************************************************************)
\* The places Split returns to; the caller's lock is released there.
SplitReturn(t) ==
    th' = [th EXCEPT ![t] =
             IF th[t].after = "idle" THEN Idle
             ELSE [th[t] EXCEPT !.pc = th[t].after, !.clusters = <<{}, {}>>,
                                !.ids = <<NoHead, NoHead>>, !.same = 0, !.k = 1]]

CanLock(t, h) == Free(h) \/ (th[t].after = "append" /\ Held(t, h))

SplitHeadGone(t) ==
    LET h == th[t].head IN
    /\ th[t].pc = "split" /\ CanLock(t, h)
    /\ h \notin heads
    /\ Release(h)
    /\ SplitReturn(t)
    /\ UNCHANGED <<index, store, version, jobs, mergeLock, lists, budgets>>

\* Fewer live vectors than the limit: drop the garbage and keep the head.
SplitCollect(t) ==
    LET h == th[t].head IN
    /\ th[t].pc = "split" /\ CanLock(t, h)
    /\ h \in heads
    /\ Cardinality(Live(h)) < Limit
    /\ posting' = [posting EXCEPT ![h] = Live(h)]
    /\ splitList' = splitList \ {h}
    /\ Release(h)
    /\ SplitReturn(t)
    /\ UNCHANGED <<index, keys, version, jobs, mergeLock, mergeList, budgets>>

\* k-means finds one cluster, of equal vectors or of one: one of them is kept.
SplitOneCluster(t) ==
    LET h == th[t].head IN
    /\ th[t].pc = "split" /\ CanLock(t, h)
    /\ h \in heads
    /\ Cardinality(Live(h)) >= Limit
    /\ setting.sameVectors \/ Cardinality(Live(h)) = 1
    /\ \E e \in Live(h) : posting' = [posting EXCEPT ![h] = {e}]
    /\ splitList' = splitList \ {h}
    /\ Release(h)
    /\ SplitReturn(t)
    /\ UNCHANGED <<index, keys, version, jobs, mergeLock, mergeList, budgets>>

\* Two clusters; at most one of them has the old head as its centre.
SplitTwoClusters(t) ==
    LET h == th[t].head IN
    /\ th[t].pc = "split" /\ CanLock(t, h)
    /\ h \in heads
    /\ Cardinality(Live(h)) >= Limit /\ Cardinality(Live(h)) >= 2
    /\ Acquire(t, h)
    /\ \E c \in SUBSET Live(h), same \in 0..2 :
         /\ c # {} /\ c # Live(h)
         /\ th' = [th EXCEPT ![t].pc = "newhead", ![t].clusters = <<c, Live(h) \ c>>,
                             ![t].same = same, ![t].k = 1]
    /\ UNCHANGED <<index, store, version, jobs, mergeLock, lists, budgets>>

NextCluster(t) == IF th[t].k = 2 THEN "unlink" ELSE "newhead"

\* Cluster k keeps the head: its posting is overwritten.
KeepHead(t) ==
    LET h == th[t].head
        k == th[t].k
    IN
    /\ th[t].pc = "newhead"
    /\ th[t].same = k
    /\ posting' = [posting EXCEPT ![h] = th[t].clusters[k]]
    /\ th' = [th EXCEPT ![t].pc = NextCluster(t), ![t].ids[k] = h, ![t].k = 2]
    /\ UNCHANGED <<index, keys, version, jobs, lock, mergeLock, lists, budgets>>

\* Cluster k gets a new head: a new id and, with ExcludeHead, the vector it
\* stands for, whose copies become stale before the new posting is written.
NewHead(t) ==
    LET k == th[t].k IN
    /\ th[t].pc = "newhead"
    /\ th[t].same # k
    /\ nextHead < setting.heads
    /\ nextHead' = nextHead + 1
    /\ th' = [th EXCEPT ![t].pc = "put", ![t].ids[k] = nextHead]
    /\ IF ExcludeHead
         THEN \E e \in th[t].clusters[k] :
                /\ headVector' = [headVector EXCEPT ![nextHead] = e[1]]
                /\ version' = [version EXCEPT ![e[1]] = IF @ = DELETED THEN @ ELSE @ + 1]
         ELSE UNCHANGED <<headVector, version>>
    /\ UNCHANGED <<heads, store, jobs, lock, mergeLock, lists, budgets>>

\* The store takes the posting, then the head index takes the head.
PutNewPosting(t) ==
    LET k == th[t].k
        n == th[t].ids[k]
    IN
    /\ th[t].pc = "put"
    /\ posting' = [posting EXCEPT ![n] = th[t].clusters[k]]
    /\ keys' = keys \cup {n}
    /\ heads' = heads \cup {n}
    /\ th' = [th EXCEPT ![t].pc = NextCluster(t), ![t].k = 2]
    /\ UNCHANGED <<nextHead, headVector, version, jobs, lock, mergeLock, lists, budgets>>

\* The old head goes unless a cluster kept it; the lock Split took is released.
Unlink(t) ==
    LET h == th[t].head IN
    /\ th[t].pc = "unlink"
    /\ IF th[t].same = 0
         THEN /\ heads' = heads \ {h}
              /\ posting' = [posting EXCEPT ![h] = {}]
              /\ keys' = keys \ {h}
         ELSE UNCHANGED <<heads, store>>
    /\ IF th[t].after = "append" THEN UNCHANGED lock ELSE Release(h)
    /\ Goto(t, "unlist")
    /\ UNCHANGED <<nextHead, headVector, version, jobs, mergeLock, lists, budgets>>

Unlist(t) ==
    LET h == th[t].head IN
    /\ th[t].pc = "unlist"
    /\ splitList' = splitList \ {h}
    /\ IF th[t].reassign
         THEN Goto(t, "collect")
         ELSE SplitReturn(t)
    /\ UNCHANGED <<index, store, version, jobs, lock, mergeLock, mergeList, budgets>>

(***************************************************************************)
(* CollectReAssign: with ExcludeHead the vector of the head that went must *)
(* be reassigned; any current vector of the two clusters may be.           *)
(***************************************************************************)
\* The vector of a head that went is forgotten.
HeadVectorJobs_Forgets(h) == <<>>

HeadVectorJobs(h) ==
    IF ExcludeHead /\ headVector[h] # NoVector /\ version[headVector[h]] # DELETED
      THEN <<ReassignJob(<<headVector[h], version[headVector[h]]>>, NoHead)>> ELSE <<>>

MayReassign(es) == {e \in es : Current(e) /\ e[2] < MaxVersion}

CollectReAssign(t) ==
    LET h == th[t].head
        mandatory == IF th[t].same = 0 THEN HeadVectorJobs(h) ELSE <<>>
        optional == {ReassignJob(e, th[t].ids[1]) : e \in MayReassign(th[t].clusters[1])}
                    \cup {ReassignJob(e, th[t].ids[2]) : e \in MayReassign(th[t].clusters[2])}
    IN
    /\ th[t].pc = "collect"
    /\ \E js \in UpTo(setting.reassigns, optional) : \E q \in Orders(js) : jobs' = jobs \o mandatory \o q
    /\ IF th[t].after = "append" THEN Release(h) ELSE UNCHANGED lock
    /\ SplitReturn(t)
    /\ UNCHANGED <<index, store, version, mergeLock, lists, budgets>>

(***************************************************************************)
(* MergePostings.                                                          *)
(***************************************************************************)
\* try_lock fails: the job goes to the end of the queue.  The constructor's
\* parameter is disableReassign; the code passes it the flag reassign.
MergeBusy(t) ==
    /\ th[t].pc = "merge"
    /\ mergeLock # None
    /\ jobs' = Append(jobs, MergeJob(th[t].head, th[t].reassign))
    /\ Finish(t)
    /\ UNCHANGED <<index, store, version, lock, mergeLock, lists, budgets>>

MergeStart(t) ==
    /\ th[t].pc = "merge"
    /\ mergeLock = None
    /\ mergeLock' = t
    /\ Goto(t, "mergelock")
    /\ UNCHANGED <<index, store, version, jobs, lock, lists, budgets>>

\* The head went before its merge: it stays in m_mergeList.
MergeHeadGone(t) ==
    LET h == th[t].head IN
    /\ th[t].pc = "mergelock" /\ Free(h)
    /\ h \notin heads
    /\ mergeLock' = None
    /\ Finish(t)
    /\ UNCHANGED <<index, store, version, jobs, lock, lists, budgets>>

\* Long enough after all: write the live vectors back.
MergeNotNeeded(t) ==
    LET h == th[t].head IN
    /\ th[t].pc = "mergelock" /\ Free(h)
    /\ h \in heads
    /\ Cardinality(Live(h)) > MergeThreshold
    /\ posting' = [posting EXCEPT ![h] = Live(h)]
    /\ mergeList' = mergeList \ {h}
    /\ mergeLock' = None
    /\ Finish(t)
    /\ UNCHANGED <<index, keys, version, jobs, lock, splitList, budgets>>

MergeRead(t) ==
    LET h == th[t].head IN
    /\ th[t].pc = "mergelock" /\ Free(h)
    /\ h \in heads
    /\ Cardinality(Live(h)) <= MergeThreshold
    /\ Acquire(t, h)
    /\ th' = [th EXCEPT ![t].pc = "mergewith", ![t].current = Live(h)]
    /\ UNCHANGED <<index, store, version, jobs, mergeLock, lists, budgets>>

\* Entries of the other posting that are live and whose vector is new here.
Additional(t, o) == {e \in Live(o) : \A c \in th[t].current : c[1] # e[1]}

\* A head nearby is chosen by its size before its lock is taken.
MergePick(t, o) ==
    /\ th[t].pc = "mergewith"
    /\ o \in heads \ {th[t].head} /\ o \notin mergeList
    /\ Cardinality(th[t].current) + Size(o) < Limit
    /\ th' = [th EXCEPT ![t].pc = "mergeother", ![t].survivor = o]
    /\ UNCHANGED <<index, store, version, jobs, lock, mergeLock, lists, budgets>>

CanLockOther(t) == Free(th[t].survivor) \/ Hash(th[t].survivor) = Hash(th[t].head)

MergeOtherGone(t) ==
    /\ th[t].pc = "mergeother" /\ CanLockOther(t)
    /\ th[t].survivor \notin heads
    /\ Goto(t, "mergewith")
    /\ UNCHANGED <<index, store, version, jobs, lock, mergeLock, lists, budgets>>

\* The head with fewer live vectors goes, this one on a tie.
MergeWith(t) ==
    LET h == th[t].head
        o == th[t].survivor
        merged == th[t].current \cup Additional(t, o)
        keepsThis == Cardinality(th[t].current) > Cardinality(Live(o))
        gone == IF keepsThis THEN o ELSE h
        kept == IF keepsThis THEN h ELSE o
    IN
    /\ th[t].pc = "mergeother" /\ CanLockOther(t)
    /\ o \in heads
    /\ heads' = heads \ {gone}
    /\ posting' = [posting EXCEPT ![kept] = merged, ![gone] = {}]
    /\ keys' = keys \ {gone}
    /\ Release(h)
    /\ mergeLock' = None
    /\ th' = [th EXCEPT ![t].pc = "mergereassign", ![t].survivor = kept,
                        ![t].ids = <<gone, NoHead>>, ![t].current = posting[gone]]
    /\ UNCHANGED <<nextHead, headVector, version, jobs, lists, budgets>>

\* m_mergeLock is not released.
MergeNoNeighbour_KeepsLock(t) ==
    LET h == th[t].head IN
    /\ th[t].pc = "mergewith"
    /\ posting' = [posting EXCEPT ![h] = th[t].current]
    /\ mergeList' = mergeList \ {h}
    /\ Release(h)
    /\ Finish(t)
    /\ UNCHANGED <<index, keys, version, jobs, mergeLock, splitList, budgets>>

\* No head nearby will do (or the search finds none that would).
MergeNoNeighbour(t) ==
    LET h == th[t].head IN
    /\ th[t].pc = "mergewith"
    /\ posting' = [posting EXCEPT ![h] = th[t].current]
    /\ mergeList' = mergeList \ {h}
    /\ Release(h)
    /\ mergeLock' = None
    /\ Finish(t)
    /\ UNCHANGED <<index, keys, version, jobs, splitList, budgets>>

\* After the locks: any entry of the posting that went may be reassigned, the
\* vector of the head that went must be; both only if reassign.
MergeReassign(t) ==
    LET optional == {ReassignJob(e, th[t].survivor) :
                        e \in {c \in th[t].current : c[2] < MaxVersion}}
    IN
    /\ th[t].pc = "mergereassign"
    /\ IF th[t].reassign
         THEN \E js \in UpTo(setting.reassigns, optional) : \E q \in Orders(js) :
                jobs' = jobs \o q \o HeadVectorJobs(th[t].ids[1])
         ELSE UNCHANGED jobs
    /\ mergeList' = mergeList \ {th[t].head}
    /\ Finish(t)
    /\ UNCHANGED <<index, store, version, lock, mergeLock, splitList, budgets>>

-----------------------------------------------------------------------------
ClientStep(t) ==
    \/ \E v \in Vectors : AddIndex(t, v) \/ DeleteIndex(t, v)
    \/ \E h \in HeadIds : SearchIndex(t, h)
    \/ ForceGC(t)

Work(t) ==
    \/ TakeJob(t) \/ CollectNext(t)
    \/ NextSelection(t) \/ HeadMiss(t) \/ AppendPosting(t) \/ CheckSize(t)
    \/ SelectHeads(t) \/ RecheckVersion(t) \/ Increment(t)
    \/ SplitHeadGone(t) \/ SplitCollect(t) \/ SplitOneCluster(t) \/ SplitTwoClusters(t)
    \/ KeepHead(t) \/ NewHead(t) \/ PutNewPosting(t) \/ Unlink(t) \/ Unlist(t)
    \/ CollectReAssign(t)
    \/ MergeBusy(t) \/ MergeStart(t) \/ MergeHeadGone(t) \/ MergeNotNeeded(t) \/ MergeRead(t)
    \/ (\E o \in HeadIds : MergePick(t, o)) \/ MergeOtherGone(t) \/ MergeWith(t) \/ MergeNoNeighbour(t) \/ MergeReassign(t)

Next == \E t \in Threads : ClientStep(t) \/ Work(t)

Spec == Init /\ [][Next]_vars

\* Every pool thread and every call in progress goes on.
FairSpec == Spec /\ \A t \in Threads : WF_vars(Work(t))

-----------------------------------------------------------------------------
TypeOK ==
    /\ setting \in Settings
    /\ heads \subseteq keys /\ keys \subseteq HeadIds
    /\ nextHead \in 0..MaxHeads
    /\ posting \in [HeadIds -> SUBSET (Vectors \X Nat)]
    /\ headVector \in [HeadIds -> Vectors \cup {NoVector}]
    /\ version \in [Vectors -> Int]
    /\ lock \in [0..(PoolSize - 1) -> Threads \cup {None}]
    /\ mergeLock \in Threads \cup {None}
    /\ splitList \subseteq HeadIds /\ mergeList \subseteq HeadIds
    /\ \A t \in Threads : th[t].pc \in PCs

Quiet == jobs = <<>> /\ \A t \in Threads : th[t].pc = "idle"

\* A copy a search can find and no split or merge will drop.
Stored(v) ==
    \/ \E h \in heads : <<v, version[v]>> \in posting[h]
    \/ ExcludeHead /\ \E h \in heads : headVector[h] = v

\* Once the jobs are done, every vector that was added and not deleted has a
\* current copy in the posting of a head, or is itself a head.  (Of the equal
\* vectors that k-means cannot part, Split keeps one.)
NoVectorLost ==
    Quiet /\ ~setting.sameVectors => \A v \in Vectors : version[v] >= 0 => Stored(v)

\* Once the jobs are done the store has the postings of the heads and no other,
\* and no head is listed for a split or a merge that will never come: SplitAsync
\* and MergeAsync do nothing for a listed head.
NothingLeftBehind ==
    Quiet => /\ keys = heads
             /\ (splitList \cup mergeList) \cap heads = {}
             /\ mergeLock = None /\ \A i \in DOMAIN lock : lock[i] = None

\* Every head has a posting at every instant, and when AllFinished has answered
\* Checkpoint and Save find no vector lost and nothing left behind
\* (ExtraDynamicSearcher.h).
UpdatesSound == TypeOK /\ NoVectorLost /\ NothingLeftBehind

\* No posting outgrows the buffer that is reserved for it.
PostingBounded == \A h \in HeadIds : Size(h) <= Limit + Buffer

\* The updates come to an end, unless the bound on head ids stops a split: what
\* AllFinished waits for.
Quiesces == []<>(Quiet \/ nextHead = setting.heads)
=============================================================================
